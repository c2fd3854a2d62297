------------------------------ MODULE LocalExec ------------------------------
(***************************************************************************)
(* The steps that act on the runner's own host (pkg/executor): shell_exec, *)
(* script_exec, ansible and ansible_playbook run a process through os/exec *)
(* and wait for its pipes; write_file writes a file; prompt asks the       *)
(* operator; http_request sends one request.  A step that failed, or whose *)
(* runner died, is executed again by a resume.                             *)
(*                                                                         *)
(* The processes, the operator, the server and the file system's errors    *)
(* are external.  Of a process's output the model counts the pieces.       *)
(***************************************************************************)
EXTENDS Integers, Sequences

CONSTANTS
    StepTimeoutSet,  \* whether the step has a timeout
    MaxOutput,       \* bound: pieces of output a process writes
    MaxExecutions    \* bound: how often the step is executed

ASSUME LocalAssumption ==
    /\ StepTimeoutSet \in BOOLEAN
    /\ MaxOutput \in Nat /\ MaxExecutions \in Nat \ {0}

Process == {"shell_exec", "script_exec", "ansible"}
LocalKind == Process \cup {"write_file", "prompt", "http_request"}

(* How many temporary files a step makes before its process: an inline     *)
(* script; an inventory map and an extra_vars map.                         *)
Temps(k) == IF k = "script_exec" THEN 1 ELSE IF k = "ansible" THEN 2 ELSE 0

VARIABLES
    kind,      \* the step's base type
    options,   \* append; whether the prompt has choices, and a default;
               \* whether ignore_status covers an error status, or is no
               \* Boolean and no list of status codes
    at,        \* where Execute is
    execCtx,   \* the step's context
    temp,      \* temporary files this execution has not tried to remove
    child,     \* the process os/exec started
    heir,      \* a descendant that has the child's pipes
    output,    \* pieces written, and pieces in the buffers
    killed,    \* the watcher of os/exec has killed the child
    file,      \* write_file's target: its pieces and its mode
    result,    \* what Execute returned
    execution  \* the number of this execution

processVars == <<child, heir, output, killed>>
localVars == <<kind, options, at, execCtx, temp, child, heir, output, killed,
               file, result, execution>>

NoResult == [err |-> "none", exit |-> "none", output |-> FALSE]
NoOutput == [written |-> 0, read |-> 0]

(* p is "start", or "idle" when another executor has the step *)
LocalInit(p) ==
    /\ kind \in LocalKind
    /\ options \in [append : BOOLEAN, choices : BOOLEAN, default : BOOLEAN,
                    ignored : {"none", "covers", "invalid"}]
    /\ options.append => kind = "write_file"
    /\ (options.choices \/ options.default) => kind = "prompt"
    /\ options.ignored # "none" => kind = "http_request"
    /\ at = p
    /\ execCtx = "live"
    /\ temp = 0
    /\ child = "none" /\ heir = FALSE
    /\ output = NoOutput /\ killed = FALSE
    /\ file \in {[pieces |-> <<>>, mode |-> "none"],
                 [pieces |-> <<"old">>, mode |-> "other"]}
    /\ result = NoResult
    /\ execution = 1

Executing == at \notin {"idle", "done"}

(* Execute returns; deferred calls remove the temporary files, and nobody  *)
(* looks whether os.Remove could.                                          *)
Return(r) ==
    /\ at' = "done"
    /\ result' = r
    /\ temp' = 0

Fail(why) == Return([err |-> why, exit |-> "none", output |-> FALSE])

(* A parameter is missing, has the wrong type or names what does not       *)
(* exist.  script_exec and ansible find some of these when they have       *)
(* already made files; prompt, also that no terminal is there.             *)
Invalid ==
    /\ at = "start"
    /\ Fail("invalid")
    /\ UNCHANGED <<kind, options, execCtx, processVars, file, execution>>

-----------------------------------------------------------------------------
(* Temporary files. *)

(* os.CreateTemp; ansible's builder remembers the name at once *)
MakeTemp ==
    /\ at = "start"
    /\ temp < Temps(kind)
    /\ temp' = temp + 1
    /\ at' = "writing"
    /\ UNCHANGED <<kind, options, execCtx, processVars, file, result, execution>>

WroteTemp ==
    /\ at = "writing"
    /\ at' = "start"
    /\ UNCHANGED <<kind, options, execCtx, temp, processVars, file, result, execution>>

(* Mutant: the cleanup is deferred only after the file is written *)
CannotWriteTempLeaks ==
    /\ at = "writing"
    /\ at' = "done"
    /\ result' = [NoResult EXCEPT !.err = "temp"]
    /\ UNCHANGED <<kind, options, execCtx, temp, processVars, file, execution>>

(* chmod, write or close fails *)
CannotWriteTemp ==
    /\ at = "writing"
    /\ Fail("temp")
    /\ UNCHANGED <<kind, options, execCtx, processVars, file, execution>>

-----------------------------------------------------------------------------
(* The process: cmd.Run is Start and Wait. *)

StartChild ==
    /\ at = "start" /\ kind \in Process
    /\ execCtx = "live"
    /\ child' = "running"
    /\ at' = "running"
    /\ UNCHANGED <<kind, options, execCtx, temp, heir, output, killed, file,
                   result, execution>>

(* No such program, or the context has ended: there is no ProcessState, so *)
(* exit_code is -1, and the output, empty, is returned with the error.     *)
CannotStart ==
    /\ at = "start" /\ kind \in Process
    /\ Return([err |-> "start", exit |-> "-1", output |-> TRUE])
    /\ UNCHANGED <<kind, options, execCtx, processVars, file, execution>>

(* The child or a descendant writes to a pipe. *)
Writes ==
    /\ child = "running" \/ heir
    /\ output.written < MaxOutput
    /\ output' = [output EXCEPT !.written = @ + 1]
    /\ UNCHANGED <<kind, options, at, execCtx, temp, child, heir, killed, file,
                   result, execution>>

(* A process is started in the background and inherits the pipes. *)
Forks ==
    /\ child = "running" /\ ~ heir
    /\ heir' = TRUE
    /\ UNCHANGED <<kind, options, at, execCtx, temp, child, output, killed, file,
                   result, execution>>

ChildExits(e) ==
    /\ child = "running"
    /\ child' = e
    /\ UNCHANGED <<kind, options, at, execCtx, temp, heir, output, killed, file,
                   result, execution>>

HeirEnds ==
    /\ heir
    /\ heir' = FALSE
    /\ UNCHANGED <<kind, options, at, execCtx, temp, child, output, killed, file,
                   result, execution>>

(* Mutant: exec.Command, which watches no context *)
KillNothing == FALSE /\ UNCHANGED localVars

(* The watcher: it sends SIGKILL to the child, which may already be a      *)
(* zombie, and to nobody else.  Once the child is reaped it is gone.       *)
Kill ==
    /\ at = "running"
    /\ execCtx # "live"
    /\ ~ killed
    /\ killed' = TRUE
    /\ child' = IF child = "running" THEN "signal" ELSE child
    /\ UNCHANGED <<kind, options, at, execCtx, temp, heir, output, file, result,
                   execution>>

(* The goroutines that copy the pipes into the buffers. *)
Copy ==
    /\ at \in {"running", "reaped"}
    /\ output.read < output.written
    /\ output' = [output EXCEPT !.read = @ + 1]
    /\ UNCHANGED <<kind, options, at, execCtx, temp, child, heir, killed, file,
                   result, execution>>

(* Process.Wait, and the end of the watcher *)
Reap ==
    /\ at = "running"
    /\ child # "running"
    /\ at' = "reaped"
    /\ UNCHANGED <<kind, options, execCtx, temp, processVars, file, result, execution>>

RunError == IF child # "0" THEN "exit" ELSE IF killed THEN "context" ELSE "none"

Ran == Return([err |-> RunError, exit |-> child, output |-> TRUE])

(* Mutant: the child's end is taken for the end of its output *)
RunReturnsAtOnce ==
    /\ at = "reaped"
    /\ Ran
    /\ UNCHANGED <<kind, options, execCtx, processVars, file, execution>>

(* Wait returns when both pipes have ended: WaitDelay is not set, so there *)
(* is no other way out.                                                    *)
RunReturns ==
    /\ at = "reaped"
    /\ output.read = output.written
    /\ ~ heir
    /\ Ran
    /\ UNCHANGED <<kind, options, execCtx, processVars, file, execution>>

-----------------------------------------------------------------------------
(* write_file, which does not look at its context. *)

Opened == IF options.append THEN file.pieces ELSE <<>>

(* Missing directories are made, and the file is opened: O_TRUNC or        *)
(* O_APPEND, with a mode the umask may reduce if it is new.                *)
OpenFile ==
    /\ at = "start" /\ kind = "write_file"
    /\ file' = [pieces |-> Opened,
                mode |-> IF file.mode = "none" THEN "umask" ELSE file.mode]
    /\ at' = "opened"
    /\ UNCHANGED <<kind, options, execCtx, temp, processVars, result, execution>>

(* A directory cannot be made, or the file cannot be opened. *)
CannotOpen ==
    /\ at = "start" /\ kind = "write_file"
    /\ Fail("open")
    /\ UNCHANGED <<kind, options, execCtx, processVars, file, execution>>

WriteContent ==
    /\ at = "opened"
    /\ file' = [file EXCEPT !.pieces = Append(@, "whole")]
    /\ at' = "written"
    /\ UNCHANGED <<kind, options, execCtx, temp, processVars, result, execution>>

(* The write stops half way, or close reports what write did not. *)
WriteFails ==
    /\ at = "opened"
    /\ \E some \in BOOLEAN :
         file' = IF some THEN [file EXCEPT !.pieces = Append(@, "part")] ELSE file
    /\ Fail("write")
    /\ UNCHANGED <<kind, options, execCtx, processVars, execution>>

Chmod ==
    /\ at = "written"
    /\ \/ /\ file' = [file EXCEPT !.mode = "requested"]
          /\ Return([err |-> "none", exit |-> "none", output |-> TRUE])
       \/ UNCHANGED file /\ Fail("chmod")
    /\ UNCHANGED <<kind, options, execCtx, processVars, execution>>

-----------------------------------------------------------------------------
(* prompt, which does not look at its context either. *)

Ask ==
    /\ at = "start" /\ kind = "prompt"
    /\ at' = "asked"
    /\ UNCHANGED <<kind, options, execCtx, temp, processVars, file, result, execution>>

(* What a line stands for: an empty one for the default. *)
Understood(line) == \/ line = "choice"
                    \/ line = "" /\ options.default
                    \/ line = "other" /\ ~ options.choices

(* The operator types a line.  One that will not do is asked for again. *)
Answer(line) ==
    /\ at = "asked"
    /\ IF Understood(line)
         THEN Return([err |-> "none", exit |-> "none", output |-> TRUE])
         ELSE UNCHANGED <<at, result, temp>>
    /\ UNCHANGED <<kind, options, execCtx, processVars, file, execution>>

EndOfInput ==
    /\ at = "asked"
    /\ Fail("no input")
    /\ UNCHANGED <<kind, options, execCtx, processVars, file, execution>>

-----------------------------------------------------------------------------
(* http_request *)

Send ==
    /\ at = "start" /\ kind = "http_request"
    /\ at' = "sent"
    /\ UNCHANGED <<kind, options, execCtx, temp, processVars, file, result, execution>>

(* shouldIgnoreStatus looks at ignore_status before the status is judged:  *)
(* one that is not valid fails the step after a good answer too.           *)
StatusError(bad) ==
    IF options.ignored = "invalid" THEN "ignore_status"
    ELSE IF bad /\ options.ignored # "covers" THEN "status" ELSE "none"

(* The answer is read whole, and the output is returned with an error too. *)
Response(bad) ==
    /\ at = "sent"
    /\ Return([err |-> StatusError(bad), exit |-> "none", output |-> TRUE])
    /\ UNCHANGED <<kind, options, execCtx, processVars, file, execution>>

NoResponse ==
    /\ at = "sent"
    /\ Fail("request")
    /\ UNCHANGED <<kind, options, execCtx, processVars, file, execution>>

-----------------------------------------------------------------------------
(* The context, the runner and the resume. *)

DeadlineOver ==
    /\ StepTimeoutSet
    /\ Executing
    /\ execCtx = "live"
    /\ execCtx' = "over"
    /\ UNCHANGED <<kind, options, at, temp, processVars, file, result, execution>>

(* The step is executed again: it failed, its row was lost, or the runner  *)
(* died, which leaves its temporary files and processes to themselves.     *)
Again ==
    /\ at # "idle"
    /\ execution < MaxExecutions
    /\ execution' = execution + 1
    /\ at' = "start"
    /\ execCtx' = "live"
    /\ temp' = 0
    /\ child' = "none" /\ heir' = FALSE
    /\ output' = NoOutput /\ killed' = FALSE
    /\ result' = NoResult
    /\ UNCHANGED <<kind, options, file>>

Host == \/ Writes \/ Forks \/ HeirEnds \/ \E e \in {"0", "1"} : ChildExits(e)
        \/ \E line \in {"", "choice", "other"} : Answer(line)
        \/ EndOfInput \/ (\E bad \in BOOLEAN : Response(bad))

Execute == \/ Invalid \/ MakeTemp \/ WroteTemp \/ CannotWriteTemp
           \/ StartChild \/ CannotStart \/ Reap \/ RunReturns
           \/ OpenFile \/ CannotOpen \/ WriteContent \/ WriteFails \/ Chmod
           \/ Ask \/ Send

LocalNext == Host \/ Execute \/ Kill \/ Copy \/ NoResponse \/ DeadlineOver \/ Again

(* The runner's goroutines go on, its timers fire, a killed process is     *)
(* reaped, and net/http gives up when the context has ended.  Nobody else  *)
(* owes anything.                                                          *)
LocalFairness ==
    /\ WF_localVars(Execute) /\ WF_localVars(Kill) /\ WF_localVars(Copy)
    /\ WF_localVars(execCtx # "live" /\ NoResponse)
    /\ WF_localVars(DeadlineOver)

-----------------------------------------------------------------------------
(* Properties *)

(* The state has its form. *)
LocalTypeOK ==
    /\ kind \in LocalKind
    /\ at \in {"idle", "start", "writing", "running", "reaped", "opened",
               "written", "asked", "sent", "done"}
    /\ execCtx \in {"live", "over"}
    /\ temp \in 0..2 /\ heir \in BOOLEAN /\ killed \in BOOLEAN
    /\ child \in {"none", "running", "0", "1", "signal"}
    /\ 0 <= output.read /\ output.read <= output.written
    /\ output.written <= MaxOutput
    /\ execution \in 1..MaxExecutions

(* "written to a temporary file removed after the run": however a step     *)
(* ends, it has tried to remove every script, inventory and extra_vars     *)
(* file it had made, an error between two files included.                  *)
TempFilesRemoved == at = "done" => temp = 0

(* A write_file that succeeds leaves the content once, in the mode asked   *)
(* for, whatever earlier executions were cut short; when it appends, the   *)
(* content comes last.                                                     *)
WriteSettles ==
    (kind = "write_file" /\ result.err = "none" /\ at = "done") =>
        /\ file.mode = "requested"
        /\ ~ options.append => file.pieces = <<"whole">>
        /\ options.append => file.pieces[Len(file.pieces)] = "whole"

(* A process step that succeeds has an exit status of 0, was not killed    *)
(* for its timeout, and has in its output everything that the process and  *)
(* all it started have written: no reader of the output sees half of it.   *)
OutputIsWhole ==
    (kind \in Process /\ at = "done" /\ result.err = "none") =>
        /\ result.exit = "0"
        /\ ~ killed
        /\ ~ heir
        /\ output.read = output.written

(* What a step leaves on disk and what it reports are whole.               *)
LocalInv == LocalTypeOK /\ TempFilesRemoved /\ WriteSettles /\ OutputIsWhole

(* After its timeout a process or a request ends, unless a descendant of   *)
(* the process keeps the pipes: SIGKILL is for the child alone.            *)
HostStepsEnd ==
    (execCtx = "over" /\ kind \in Process \cup {"http_request"})
        ~> (at = "done" \/ heir \/ execCtx = "live")

(* "Maximum execution time in seconds", for every step type, and "use the  *)
(* step-level `timeout` to bound the whole run"                            *)
(* (docs/reference/step-types.md).                                         *)
TimeoutBounds == execCtx = "over" ~> (at = "done" \/ execCtx = "live")

=============================================================================
