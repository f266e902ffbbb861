---------------------------- MODULE BuildScript -----------------------------
(***************************************************************************)
(* build_scripts/build_utils.py: build() starts the three compilers at     *)
(* once, collects their exit codes one after the other, links and          *)
(* concatenates the disk image, which run() then hands to qemu.            *)
(*                                                                         *)
(* The compilers, ld and cat are modelled by how they end.  A process runs *)
(* beside the script; poll() gives None while it does.                     *)
(***************************************************************************)
EXTENDS Naturals, Sequences

VARIABLES script,    \* the next step of the script
          turn,      \* the compiler whose exit code it collects
          proc,      \* how the compilers are getting on
          exit_code, \* the variable of build()
          had_error, \* the global variable
          blamed,    \* steps whose failure has been printed
          image,     \* build/os-image: of which build, and whether all of it
          slow       \* history: compilers the script has had to wait for

buildVars == <<script, turn, proc, exit_code, had_error, blamed, image, slow>>

-----------------------------------------------------------------------------
Order == <<"zig", "nasm boot_sect", "nasm kernel_entry">>
Compilers == {Order[k] : k \in 1 .. 3}

None == "None"  \* the exit code of a process that runs
Current == Order[turn]

(* The repository comes with an image of an earlier build. *)
BuildInit ==
    /\ script = "start" /\ turn = 1
    /\ proc = [p \in Compilers |-> "absent"]
    /\ exit_code = None
    /\ had_error = FALSE
    /\ blamed = {} /\ slow = {}
    /\ image = [build |-> "earlier", whole |-> TRUE]

Code(p) == CASE proc[p] = "running" -> None
             [] proc[p] = "ok"      -> "0"
             [] proc[p] = "failed"  -> "1"

(* subprocess.Popen returns at once. *)
StartCompilers ==
    /\ script = "start" /\ script' = "poll"
    /\ proc' = [p \in Compilers |-> "running"]
    /\ UNCHANGED <<turn, exit_code, had_error, blamed, image, slow>>

CompilerEnds(p) ==
    /\ proc[p] = "running"
    /\ \E end \in {"ok", "failed"} : proc' = [proc EXCEPT ![p] = end]
    /\ UNCHANGED <<script, turn, exit_code, had_error, blamed, image, slow>>

Poll == /\ script = "poll"
        /\ exit_code' = Code(Current)
        /\ script' = IF proc[Current] = "running" THEN "wait" ELSE "check"
        /\ slow' = slow \cup (IF proc[Current] = "running" THEN {Current} ELSE {})
        /\ UNCHANGED <<turn, proc, had_error, blamed, image>>

\* Faulty variants, here and below, are in no specification: a run that put
\* one in the place of its original must fail.
\* Faulty: the exit code of no process that is waited for is kept.
WaitForgetsAll ==
    /\ script = "wait" /\ script' = "check"
    /\ proc[Current] # "running"
    /\ UNCHANGED <<turn, exit_code, proc, had_error, blamed, image, slow>>

\* Faulty: the loop looks at its first answer for ever.
WaitStale ==
    /\ script = "wait" /\ script' = "check"
    /\ exit_code # None
    /\ exit_code' = IF Current = "zig" THEN Code(Current) ELSE exit_code
    /\ UNCHANGED <<turn, proc, had_error, blamed, image, slow>>

(* wait_for_process polls until the process has ended.  Its result is      *)
(* assigned for zig only.                                                  *)
Wait ==
    /\ script = "wait" /\ script' = "check"
    /\ proc[Current] # "running"
    /\ exit_code' = IF Current = "zig" THEN Code(Current) ELSE exit_code
    /\ UNCHANGED <<turn, proc, had_error, blamed, image, slow>>

\* Faulty: exit_on_error tests `if exit_code', which None passes as 0 does.
truthy_exit_on_error(code, what) ==
    /\ had_error' = (had_error \/ code \notin {None, "0"})
    /\ blamed' = blamed \cup (IF code \notin {None, "0"} THEN {what} ELSE {})

exit_on_error(code, what) ==
    /\ had_error' = (had_error \/ code # "0")
    /\ blamed' = blamed \cup (IF code # "0" THEN {what} ELSE {})

\* Faulty: the script looks no further than the first failure.
CheckStopsEarly ==
    /\ script = "check"
    /\ exit_on_error(exit_code, Current)
    /\ IF turn < Len(Order) /\ ~had_error'
         THEN script' = "poll" /\ turn' = turn + 1
         ELSE script' = (IF had_error' THEN "exited" ELSE "link") /\ UNCHANGED turn
    /\ UNCHANGED <<proc, exit_code, image, slow>>

(* After the third compiler the script exits if one was found to fail. *)
Check ==
    /\ script = "check"
    /\ exit_on_error(exit_code, Current)
    /\ IF turn < Len(Order)
         THEN script' = "poll" /\ turn' = turn + 1
         ELSE script' = (IF had_error' THEN "exited" ELSE "link") /\ UNCHANGED turn
    /\ UNCHANGED <<proc, exit_code, image, slow>>

Link ==
    /\ script = "link"
    /\ exit_code' \in {"0", "1"}
    /\ exit_on_error(exit_code', "ld")
    /\ script' = IF had_error' THEN "exited" ELSE "cat"
    /\ UNCHANGED <<turn, proc, image, slow>>

(* The shell may fail to open the image, and cat may stop in the middle;   *)
(* nobody looks at the exit code.                                          *)
Concatenate ==
    /\ script = "cat" /\ script' = "built"
    /\ image' \in {image, [build |-> "this", whole |-> FALSE],
                          [build |-> "this", whole |-> TRUE]}
    /\ UNCHANGED <<turn, proc, exit_code, had_error, blamed, slow>>

Script == StartCompilers \/ Poll \/ Wait \/ Check \/ Link \/ Concatenate

BuildNext == \/ Script
             \/ \E p \in Compilers : CompilerEnds(p)

(* The script is scheduled, and every compiler comes to an end. *)
BuildFairness ==
    /\ WF_buildVars(Script)
    /\ \A p \in Compilers : WF_buildVars(CompilerEnds(p))

BuildSpec == BuildInit /\ [][BuildNext]_buildVars /\ BuildFairness

-----------------------------------------------------------------------------
(* Properties.                                                             *)

BuildTypeOK ==
    /\ script \in {"start", "poll", "wait", "check", "link", "cat", "built",
                   "exited"}
    /\ turn \in 1 .. Len(Order)
    /\ proc \in [Compilers -> {"absent", "running", "ok", "failed"}]
    /\ exit_code \in {None, "0", "1"}
    /\ had_error \in BOOLEAN
    /\ blamed \subseteq Compilers \cup {"ld"}
    /\ image \in [build : {"earlier", "this"}, whole : BOOLEAN]
    /\ slow \subseteq Compilers

(* However the three compilers overlap with the script, it links and       *)
(* writes an image only when each of them has ended well, and never while  *)
(* one may still write its object file.                                    *)
LinksWhatWasCompiled ==
    script \in {"link", "cat", "built"} => \A p \in Compilers : proc[p] = "ok"

(* When the script has come to its end every failure of a compiler has     *)
(* been reported, the second and third besides the first, and no compiler  *)
(* is left running.                                                        *)
NoFailureMissed ==
    script = "exited" =>
        /\ \A p \in Compilers : proc[p] = "failed" => p \in blamed
        /\ \A p \in Compilers : proc[p] # "running"

(* Only a compiler that failed, or a nasm the script has had to wait for,  *)
(* is reported: zig is waited for just as often and judged by how it ends. *)
BlamedOrSlow ==
    \A p \in blamed \ {"ld"} :
        proc[p] = "failed" \/ p \in slow \ {"zig"}

(* `:: boot sector compilation failed.' (build_utils.py:55) is printed     *)
(* when the compilation has failed.                                        *)
FailureHasCause == \A p \in blamed \ {"ld"} : proc[p] = "failed"

(* Nobody waits for ever: the script ends. *)
BuildEnds == <>(script \in {"built", "exited"})
=============================================================================
