--------------------------- MODULE MCWorkflowSource ---------------------------
(* The files of the small instance: one tree, and what edits make of it.   *)
EXTENDS WorkflowSource

Meta(e)   == [ok |-> TRUE, entrypoint |-> e]
Vars(n)   == [ok |-> TRUE, names |-> n]
RuleSeq(r) == [ok |-> TRUE, rules |-> r]
Types(t)  == [ok |-> TRUE, types |-> t]
Flow(n, s) == [ok |-> TRUE, workflow |-> [name |-> n, step |-> s]]
Script(v) == [ok |-> TRUE, version |-> v]

One(k, v) == [x \in {k} |-> v]
HeadersOf(names, by) == One("headers", HeaderMap([n \in names |-> by]))

TypeOf(b) == [base |-> b,
              job |-> Over(One("p", Text("job")), HeadersOf({"h1"}, "job")),
              defaults |-> One("p", Text("defaults")),
              params |-> HeadersOf({"h1", "h2"}, "params")]

Step == [type |-> "", workflow |-> "", templated |-> FALSE, rules |-> {},
         params |-> <<>>]

GateStep(rs) == [Step EXCEPT !.type = "gate", !.rules = rs]
TypedStep(t, p) == [Step EXCEPT !.type = t, !.params = p]
CallStep(w) == [Step EXCEPT !.workflow = w]

Steps == {GateStep({"r1"}), GateStep({"r2"}), CallStep("b"), CallStep("a"),
          TypedStep("t", One("p", Text("step"))),
          TypedStep("t", HeadersOf({"h2"}, "step")),
          TypedStep("t", One("headers", Text("step"))),
          TypedStep("shell_exec", <<>>), TypedStep("llm_invoke", <<>>),
          TypedStep("set_fact", <<>>),
          [CallStep("none") EXCEPT !.templated = TRUE]}

Tree(sa, sb) ==
    [f \in File |->
       CASE f = "meta.yaml"         -> Meta("a")
         [] f = "vars.yaml"         -> Vars({"v"})
         [] f = "vars/x.yaml"       -> Vars({"w"})
         [] f = "rules.yaml"        -> RuleSeq(<<"r1", "file">>)
         [] f = "gate/rules.yaml"   -> RuleSeq(<<"r2">>)
         [] f = "step_types.yaml"   -> Types(One("t", TypeOf("shell_exec")))
         [] f = "step_types/x.yaml" -> Types(<<>>)
         [] f = "workflows/a.yaml"  -> Flow("a", sa)
         [] f = "workflows/b.yaml"  -> Flow("b", sb)
         [] f = "scripts/run.py"    -> Script(1)]

SmallTrees == {Tree(sa, sb) : sa \in Steps, sb \in {GateStep({"r2"}), TypedStep("shell_exec", <<>>)}}

Edited ==
    [f \in File |->
       CASE f = "meta.yaml"         -> {Meta("b"), None}
         [] f = "vars.yaml"         -> {Vars({"w"})}
         [] f = "vars/x.yaml"       -> {Vars({"v"})}
         [] f = "rules.yaml"        -> {RuleSeq(<<"r1">>), RuleSeq(<<"r1", "r1">>)}
         [] f = "gate/rules.yaml"   -> {RuleSeq(<<"r3">>)}
         [] f = "step_types.yaml"   -> {Types(<<>>), Types(One("t", TypeOf("u"))),
                                        Types(One("t", TypeOf("gate")))}
         [] f = "step_types/x.yaml" -> {Types(One("t", TypeOf("gate")))}
         [] f = "workflows/a.yaml"  -> {Flow("a", GateStep({"r2"})), Flow("a", CallStep("b"))}
         [] f = "workflows/b.yaml"  -> {Flow("c", GateStep({"r1"}))}
         [] f = "scripts/run.py"    -> {Script(2), Script(1)}]

=============================================================================
