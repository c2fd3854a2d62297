---------------------------- MODULE MCRunContext ----------------------------
(* Workflows of three steps for RunContext. *)
EXTENDS RunContext

Names == <<"build", "check", "ship">>

Plain == [type |-> "exec", base |-> "exec", facts |-> <<>>, register |-> NoKey,
          artifacts |-> "none", source |-> "local", when |-> NoKey]

Chained == [a |-> Fresh, b |-> "a"]
Copied == [b |-> "a"]

\* set_fact steps, one of them of a type of the file, and a gate
SetsFacts == [Plain EXCEPT !.type = "set_fact", !.base = "set_fact", !.facts = Chained]
AliasSetsFacts == [SetsFacts EXCEPT !.type = "alias", !.facts = Copied]
Approves == [Plain EXCEPT !.type = "gate", !.base = "gate", !.facts = Copied, !.when = "a"]

\* steps that load a file, by themselves or after an executor
Loads == [Plain EXCEPT !.type = "load_artifact", !.base = "load_artifact",
                       !.artifacts = "required"]
LoadsFromPods == [Plain EXCEPT !.artifacts = "optional", !.source = "k8s", !.register = "a"]
LoadsAfter(i) == [Plain EXCEPT !.type = "alias", !.artifacts = "required",
                               !.register = Name[i]]

\* steps that register their output, under a variable or under their own name
RegistersIf == [Plain EXCEPT !.register = "b", !.when = "b"]
RegistersName(i) == [Plain EXCEPT !.register = Name[i]]

Mixed == {<<x, y, z>> : x \in {SetsFacts} \cup {Loads, LoadsFromPods},
                        y \in {AliasSetsFacts, Approves, RegistersIf, RegistersName(2)},
                        z \in {SetsFacts, Plain, LoadsAfter(3)}}

NoOverride == {{}}
SomeOverrides == {{}, {"a"}}
VarsAndName == {"a", Name[2]}

=============================================================================
