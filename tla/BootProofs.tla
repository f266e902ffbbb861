----------------------------- MODULE BootProofs -----------------------------
(***************************************************************************)
(* Theorems about the whole way from the sources to the running kernel,    *)
(* for every KERNEL_SIZE and every size of the kernel.  First the build    *)
(* script alone: whatever the order in which the three compilers end and   *)
(* the script looks at them, it links only what was compiled, and it       *)
(* misses no failure.  Then the boot: the boot sector judges its read as   *)
(* it says, an incomplete kernel has one of three causes, and what is      *)
(* proved of the build script and of the interrupts holds of them as       *)
(* stages of the boot.                                                     *)
(***************************************************************************)
EXTENDS Boot, InterruptsProofs, TLAPS

-----------------------------------------------------------------------------
(* The build script.                                                       *)

Ended(p) == proc[p] \in {"ok", "failed"}

(* The script has judged its k-th compiler. *)
Judged(k) == k < turn \/ script \in {"link", "cat", "built", "exited"}

(* What the next judgement rests on: the compiler has ended, and the code  *)
(* is its own, or None left over from a nasm that was waited for.          *)
KnowsCode ==
    script = "check" =>
        /\ Ended(Current)
        /\ \/ exit_code = Code(Current)
           \/ exit_code = None /\ Current \in slow \ {"zig"}

(* The judgements made so far. *)
JudgedRightly ==
    \A k \in 1 .. 3 : Judged(k) =>
        Ended(Order[k]) /\ (proc[Order[k]] = "failed" => Order[k] \in blamed)

(* A script that goes on has blamed nothing. *)
GoesOnClean ==
    /\ had_error = (blamed # {})
    /\ script \in {"link", "cat", "built"} => blamed = {}
    /\ script \in {"link", "cat", "built", "exited"} => turn = 3

Started == IF script = "start"
             THEN turn = 1 /\ blamed = {}
             ELSE \A p \in Compilers : proc[p] # "absent"

WaitsFor == script = "wait" => exit_code = None /\ Current \in slow

(* The judgements come from the exit codes, so that the safety of the end  *)
(* of the script needs all that is known on the way to them.               *)
BuildInv == /\ BuildTypeOK
            /\ Started
            /\ WaitsFor
            /\ KnowsCode
            /\ JudgedRightly
            /\ GoesOnClean
            /\ BlamedOrSlow

-----------------------------------------------------------------------------
(* There are three compilers. *)
LEMMA ThreeCompilers == Len(Order) = 3
BY DEF Order

(* They have different names. *)
LEMMA OrderFacts ==
    /\ Order[1] = "zig" /\ Order[2] = "nasm boot_sect" /\ Order[3] = "nasm kernel_entry"
    /\ Compilers = {Order[1], Order[2], Order[3]}
    /\ \A k \in 1 .. 3 : Order[k] \in Compilers
    /\ \A p \in Compilers : \E k \in 1 .. 3 : p = Order[k]
    /\ \A j, k \in 1 .. 3 : Order[j] = Order[k] => j = k
    /\ "ld" \notin Compilers
<1>1. Order[1] = "zig" /\ Order[2] = "nasm boot_sect"
        /\ Order[3] = "nasm kernel_entry"
  BY DEF Order
<1>2. Compilers = {Order[k] : k \in 1 .. 3}
  BY DEF Compilers
<1>3. \A k \in 1 .. 3 : k = 1 \/ k = 2 \/ k = 3
  OBVIOUS
<1>4. 1 \in 1 .. 3 /\ 2 \in 1 .. 3 /\ 3 \in 1 .. 3
  OBVIOUS
<1>5. Compilers = {Order[1], Order[2], Order[3]}
  BY <1>2, <1>3, <1>4, Zenon
<1>6. \A k \in 1 .. 3 : Order[k] \in Compilers
  BY <1>2, Zenon
<1>7. \A p \in Compilers : \E k \in 1 .. 3 : p = Order[k]
  BY <1>2, Zenon
<1>8. \A j, k \in 1 .. 3 : Order[j] = Order[k] => j = k
  BY <1>1, <1>3
<1>9. "ld" \notin Compilers
  BY <1>1, <1>5
<1> HIDE DEF Order, Compilers
<1> QED BY <1>1, <1>5, <1>6, <1>7, <1>8, <1>9, Zenon

(* Starting the script establishes the invariant. *)
LEMMA InitEstablishes == BuildInit => BuildInv
<1> SUFFICES ASSUME BuildInit PROVE BuildInv
  OBVIOUS
<1>1. BuildTypeOK
  <2>1. proc \in [Compilers -> {"absent", "running", "ok", "failed"}]
    BY DEF BuildInit
  <2>2. turn \in 1 .. Len(Order)
    BY ThreeCompilers DEF BuildInit
  <2> QED BY <2>1, <2>2 DEF BuildInit, BuildTypeOK
<1>2. Started /\ WaitsFor /\ KnowsCode /\ GoesOnClean /\ BlamedOrSlow
  BY DEF BuildInit, Started, WaitsFor, KnowsCode, GoesOnClean, BlamedOrSlow
<1>3. JudgedRightly
  BY DEF BuildInit, JudgedRightly, Judged
<1> QED BY <1>1, <1>2, <1>3 DEF BuildInv


(* Looking at an exit status keeps it. *)
LEMMA CheckPreserves == BuildInv /\ Check => BuildInv'
<1> SUFFICES ASSUME BuildInv, Check PROVE BuildInv'
  OBVIOUS
<1> DEFINE p == Current
<1>1. turn \in 1 .. 3 /\ p = Order[turn] /\ p \in Compilers /\ p # "ld"
  <2>1. turn \in 1 .. 3 /\ Current = Order[turn]
    BY ThreeCompilers DEF BuildInv, BuildTypeOK, Current
  <2> QED BY <2>1, OrderFacts
<1>2. Ended(p) /\ (exit_code = Code(p) \/ (exit_code = None /\ p \in slow \ {"zig"}))
  BY DEF BuildInv, KnowsCode, Check
<1>3. proc[p] = "failed" => p \in blamed'
  BY <1>2 DEF Check, exit_on_error, Ended, Code, None
<1>4. p \in blamed' => p \in blamed \/ proc[p] = "failed" \/ p \in slow \ {"zig"}
  BY <1>2 DEF Check, exit_on_error, Ended, Code, None
<1>5. blamed \subseteq blamed' /\ blamed' \subseteq blamed \cup {p}
  BY DEF Check, exit_on_error
<1>6. had_error' = (blamed' # {}) /\ had_error' \in BOOLEAN
  BY DEF Check, exit_on_error, BuildInv, GoesOnClean, BuildTypeOK
<1>7. \/ turn < 3 /\ script' = "poll" /\ turn' = turn + 1
      \/ turn = 3 /\ script' = "exited" /\ had_error' /\ turn' = turn
      \/ turn = 3 /\ script' = "link" /\ ~had_error' /\ turn' = turn
  BY <1>1, ThreeCompilers DEF Check
<1>8. UNCHANGED <<proc, exit_code, image, slow>>
  BY DEF Check
<1>9. script = "check"
  BY DEF Check
<1>a. BuildTypeOK'
  <2>1. script' \in {"poll", "exited", "link"} /\ turn' \in 1 .. Len(Order)
    BY <1>1, <1>7, ThreeCompilers
  <2>2. blamed' \subseteq Compilers \cup {"ld"}
    BY <1>1, <1>5 DEF BuildInv, BuildTypeOK
  <2> QED BY <2>1, <2>2, <1>6, <1>8 DEF BuildInv, BuildTypeOK
<1>b. Started' /\ WaitsFor' /\ KnowsCode'
  BY <1>7, <1>8, <1>9 DEF BuildInv, Started, WaitsFor, KnowsCode
<1>c. JudgedRightly'
  <2> SUFFICES ASSUME NEW k \in 1 .. 3, Judged(k)'
               PROVE  Ended(Order[k])' /\ (proc'[Order[k]] = "failed" => Order[k] \in blamed')
    BY DEF JudgedRightly
  <2>1. k < turn \/ k = turn
    BY <1>1, <1>7 DEF Judged
  <2>2. CASE k < turn
    BY <2>2, <1>5, <1>8 DEF BuildInv, JudgedRightly, Judged, Ended
  <2>3. CASE k = turn
    BY <2>3, <1>1, <1>2, <1>3, <1>8 DEF Ended
  <2> QED BY <2>1, <2>2, <2>3
<1>d. GoesOnClean'
  BY <1>6, <1>7 DEF GoesOnClean
<1>e. BlamedOrSlow'
  <2> SUFFICES ASSUME NEW q \in blamed' \ {"ld"}
               PROVE  proc'[q] = "failed" \/ q \in slow' \ {"zig"}
    BY DEF BlamedOrSlow
  <2>1. CASE q \in blamed
    BY <2>1, <1>8 DEF BuildInv, BlamedOrSlow
  <2>2. CASE q = p /\ q \notin blamed
    BY <2>2, <1>4, <1>8
  <2> QED BY <2>1, <2>2, <1>5
<1> QED BY <1>a, <1>b, <1>c, <1>d, <1>e DEF BuildInv

(* Every other step leaves the judgements as they are, since a compiler    *)
(* that has ended does not run again.                                      *)
LEMMA StepPreserves == BuildInv /\ [BuildNext]_buildVars => BuildInv'
<1> SUFFICES ASSUME BuildInv, [BuildNext]_buildVars PROVE BuildInv'
  OBVIOUS
<1> DEFINE p == Current
<1>1. turn \in 1 .. 3 /\ p = Order[turn] /\ p \in Compilers
  <2>1. turn \in 1 .. 3 /\ Current = Order[turn]
    BY ThreeCompilers DEF BuildInv, BuildTypeOK, Current
  <2> QED BY <2>1, OrderFacts
<1>2. CASE StartCompilers
  <2>1. /\ script = "start" /\ script' = "poll"
        /\ proc' = [q \in Compilers |-> "running"]
        /\ UNCHANGED <<turn, exit_code, had_error, blamed, image, slow>>
    BY <1>2 DEF StartCompilers
  <2>2. turn = 1 /\ blamed = {}
    BY <2>1 DEF BuildInv, Started
  <2>3. proc' \in [Compilers -> {"absent", "running", "ok", "failed"}]
    BY <2>1
  <2>4. BuildTypeOK'
    BY <2>1, <2>3 DEF BuildInv, BuildTypeOK
  <2>5. Started' /\ WaitsFor' /\ KnowsCode' /\ GoesOnClean' /\ BlamedOrSlow'
    BY <2>1, <2>2
       DEF BuildInv, Started, WaitsFor, KnowsCode, GoesOnClean, BlamedOrSlow
  <2>6. JudgedRightly'
    BY <2>1, <2>2 DEF JudgedRightly, Judged
  <2> QED BY <2>4, <2>5, <2>6 DEF BuildInv
<1>3. ASSUME NEW q \in Compilers, CompilerEnds(q) PROVE BuildInv'
  <2>1. PICK end \in {"ok", "failed"} : proc' = [proc EXCEPT ![q] = end]
    BY <1>3 DEF CompilerEnds
  <2>2. /\ proc[q] = "running"
        /\ UNCHANGED <<script, turn, exit_code, had_error, blamed, image, slow>>
    BY <1>3 DEF CompilerEnds
  <2>3. proc \in [Compilers -> {"absent", "running", "ok", "failed"}]
    BY DEF BuildInv, BuildTypeOK
  <2>4. /\ \A o \in Compilers : Ended(o) => Ended(o)' /\ proc'[o] = proc[o]
        /\ \A o \in Compilers : proc[o] # "absent" => proc'[o] # "absent"
        /\ \A o \in Compilers : proc[o] = "failed" => proc'[o] = "failed"
    BY <2>1, <2>2, <2>3 DEF Ended
  <2>5. BuildTypeOK'
    BY <2>1, <2>2, <2>3 DEF BuildInv, BuildTypeOK
  <2>6. Started' /\ WaitsFor' /\ GoesOnClean'
    BY <2>2, <2>4 DEF BuildInv, Started, WaitsFor, GoesOnClean, Current
  <2>7. KnowsCode'
    BY <1>1, <2>2, <2>4 DEF BuildInv, KnowsCode, Current, Code, Ended
  <2>8. JudgedRightly'
    BY <2>2, <2>4, OrderFacts DEF BuildInv, JudgedRightly, Judged
  <2>9. BlamedOrSlow'
    BY <2>2, <2>4 DEF BuildInv, BuildTypeOK, BlamedOrSlow
  <2> QED BY <2>5, <2>6, <2>7, <2>8, <2>9 DEF BuildInv
<1>4. CASE Poll
  <2>1. /\ script = "poll" /\ exit_code' = Code(p)
        /\ UNCHANGED <<turn, proc, had_error, blamed, image>>
        /\ p' = p
    BY <1>4 DEF Poll, Current
  <2>2. \/ /\ proc[p] = "running" /\ script' = "wait"
           /\ slow' = slow \cup {p}
        \/ proc[p] # "running" /\ script' = "check" /\ slow' = slow
    BY <1>4 DEF Poll
  <2>3. proc[p] \in {"running", "ok", "failed"}
    BY <1>1, <2>1 DEF BuildInv, BuildTypeOK, Started
  <2>4. exit_code' \in {None, "0", "1"} /\ (proc[p] = "running" => exit_code' = None)
    BY <2>1, <2>3 DEF Code
  <2>5. BuildTypeOK'
    BY <1>1, <2>1, <2>2, <2>4 DEF BuildInv, BuildTypeOK
  <2>6. Started' /\ WaitsFor' /\ GoesOnClean' /\ BlamedOrSlow'
    BY <2>1, <2>2, <2>4
       DEF BuildInv, Started, WaitsFor, GoesOnClean, BlamedOrSlow
  <2>7. KnowsCode'
    BY <2>1, <2>2, <2>3 DEF KnowsCode, Code, Ended
  <2>8. JudgedRightly'
    BY <2>1, <2>2 DEF BuildInv, JudgedRightly, Judged, Ended
  <2> QED BY <2>5, <2>6, <2>7, <2>8 DEF BuildInv
<1>5. CASE Wait
  <2>1. /\ script = "wait" /\ script' = "check" /\ proc[p] # "running"
        /\ exit_code' = IF p = "zig" THEN Code(p) ELSE exit_code
        /\ UNCHANGED <<turn, proc, had_error, blamed, image, slow>>
        /\ p' = p
    BY <1>5 DEF Wait, Current
  <2>2. proc[p] \in {"ok", "failed"}
    BY <1>1, <2>1 DEF BuildInv, BuildTypeOK, Started
  <2>3. exit_code = None /\ p \in slow
    BY <2>1 DEF BuildInv, WaitsFor
  <2>4. BuildTypeOK'
    BY <2>1, <2>2 DEF BuildInv, BuildTypeOK, Code
  <2>5. Started' /\ WaitsFor' /\ GoesOnClean' /\ BlamedOrSlow'
    BY <2>1 DEF BuildInv, Started, WaitsFor, GoesOnClean, BlamedOrSlow
  <2>6. KnowsCode'
    BY <2>1, <2>2, <2>3 DEF KnowsCode, Code, Ended
  <2>7. JudgedRightly'
    BY <2>1 DEF BuildInv, JudgedRightly, Judged, Ended
  <2> QED BY <2>4, <2>5, <2>6, <2>7 DEF BuildInv
<1>6. CASE Check
  BY <1>6, CheckPreserves
<1>7. CASE Link
  <2>1. /\ script = "link" /\ script' \in {"exited", "cat"}
        /\ exit_code' \in {"0", "1"}
        /\ UNCHANGED <<turn, proc, image, slow>>
        /\ had_error' <=> script' = "exited"
    BY <1>7 DEF Link
  <2>2. /\ blamed \subseteq blamed' /\ blamed' \subseteq blamed \cup {"ld"}
        /\ had_error' = (blamed' # {}) /\ had_error' \in BOOLEAN
    BY <1>7 DEF Link, exit_on_error, BuildInv, GoesOnClean, BuildTypeOK
  <2>3. BuildTypeOK'
    BY <2>1, <2>2 DEF BuildInv, BuildTypeOK
  <2>4. Started' /\ WaitsFor' /\ KnowsCode' /\ BlamedOrSlow'
    BY <2>1, <2>2
       DEF BuildInv, Started, WaitsFor, KnowsCode, BlamedOrSlow
  <2>5. GoesOnClean'
    BY <2>1, <2>2 DEF BuildInv, GoesOnClean
  <2>6. JudgedRightly'
    BY <2>1, <2>2 DEF BuildInv, JudgedRightly, Judged, Ended
  <2> QED BY <2>3, <2>4, <2>5, <2>6 DEF BuildInv
<1>8. CASE Concatenate
  <2>1. /\ script = "cat" /\ script' = "built"
        /\ UNCHANGED <<turn, proc, exit_code, had_error, blamed, slow>>
    BY <1>8 DEF Concatenate
  <2>2. image' \in [build : {"earlier", "this"}, whole : BOOLEAN]
    <3>1. image \in [build : {"earlier", "this"}, whole : BOOLEAN]
      BY DEF BuildInv, BuildTypeOK
    <3>2. image' \in {image, [build |-> "this", whole |-> FALSE],
                            [build |-> "this", whole |-> TRUE]}
      BY <1>8 DEF Concatenate
    <3>3. [build |-> "this", whole |-> FALSE] \in [build : {"earlier", "this"}, whole : BOOLEAN]
          /\ [build |-> "this", whole |-> TRUE] \in [build : {"earlier", "this"}, whole : BOOLEAN]
      OBVIOUS
    <3> QED BY <3>1, <3>2, <3>3, Zenon
  <2>3. BuildTypeOK' /\ Started' /\ WaitsFor' /\ KnowsCode' /\ GoesOnClean'
        /\ BlamedOrSlow'
    BY <2>1, <2>2 DEF BuildInv, BuildTypeOK, Started, WaitsFor, KnowsCode,
                      GoesOnClean, BlamedOrSlow
  <2>4. JudgedRightly'
    BY <2>1 DEF BuildInv, JudgedRightly, Judged, Ended
  <2> QED BY <2>3, <2>4 DEF BuildInv
<1>9. CASE UNCHANGED buildVars
  <2>1. UNCHANGED <<script, turn, proc, exit_code, had_error, blamed, image, slow>>
    BY <1>9 DEF buildVars
  <2> QED
    BY <2>1 DEF BuildInv, BuildTypeOK, Started, WaitsFor, KnowsCode, JudgedRightly,
                GoesOnClean, BlamedOrSlow, Judged, Ended, Current, Code
<1> QED
  BY <1>2, <1>3, <1>4, <1>5, <1>6, <1>7, <1>8, <1>9 DEF BuildNext, Script

-----------------------------------------------------------------------------
(* The strengthened invariant holds throughout: the types, and what is     *)
(* known of every compiler that has been judged.                           *)
THEOREM BuildInvariant == BuildSpec => []BuildInv
<1> QED BY InitEstablishes, StepPreserves, PTL DEF BuildSpec

(* The variables of the build script keep their types                      *)
(* (build_utils.py:28-74).                                                 *)
THEOREM BuildTypeCorrect == BuildSpec => []BuildTypeOK
<1>1. BuildInv => BuildTypeOK
  BY DEF BuildInv
<1> QED BY <1>1, BuildInvariant, PTL

(* However the compilers overlap with the script, it links only what has   *)
(* been compiled without an error (build_utils.py:60-65).                  *)
THEOREM LinkSafety == BuildSpec => []LinksWhatWasCompiled
<1>1. BuildInv => LinksWhatWasCompiled
  <2> SUFFICES ASSUME BuildInv, script \in {"link", "cat", "built"},
                      NEW p \in Compilers
               PROVE  proc[p] = "ok"
    BY DEF LinksWhatWasCompiled
  <2>1. PICK k \in 1 .. 3 : p = Order[k]
    BY OrderFacts
  <2>2. Ended(p) /\ (proc[p] = "failed" => p \in blamed)
    BY <2>1 DEF BuildInv, JudgedRightly, Judged
  <2>3. blamed = {}
    BY DEF BuildInv, GoesOnClean
  <2> QED BY <2>2, <2>3 DEF Ended
<1> QED BY <1>1, BuildInvariant, PTL

(* A script that exits has reported every compiler that failed, and none   *)
(* is still running (build_utils.py:46-60).                                *)
THEOREM FailuresReported == BuildSpec => []NoFailureMissed
<1>1. BuildInv => NoFailureMissed
  <2> SUFFICES ASSUME BuildInv, script = "exited", NEW p \in Compilers
               PROVE  (proc[p] = "failed" => p \in blamed) /\ proc[p] # "running"
    BY DEF NoFailureMissed
  <2>1. PICK k \in 1 .. 3 : p = Order[k]
    BY OrderFacts
  <2> QED BY <2>1 DEF BuildInv, JudgedRightly, Judged, Ended
<1> QED BY <1>1, BuildInvariant, PTL

(* What the script reports has a cause: a compiler that failed, or a nasm  *)
(* that it had to wait for (build_utils.py:53, 60).                        *)
THEOREM ReportsHaveCause == BuildSpec => []BlamedOrSlow
<1>1. BuildInv => BlamedOrSlow
  BY DEF BuildInv
<1> QED BY <1>1, BuildInvariant, PTL

-----------------------------------------------------------------------------
(* The boot.                                                               *)

SectorTypeOK ==
    /\ sector \in {"off", "disk_load", "compare", "branch", "disk_error",
                   "protected_mode", "kernel"}
    /\ disk \in Nat /\ dh \in Nat /\ al \in Nat /\ memory \in Nat
    /\ carry \in BOOLEAN /\ reported \in BOOLEAN

(* What is known of the read: before the comparison the carry flag is the  *)
(* BIOS's, after it that of the comparison, and memory still tells whether *)
(* all was read.                                                           *)
Loaded == ~reported => memory = KERNEL_SIZE /\ memory <= disk

ReadJudged ==
    /\ sector \in {"off", "disk_load"} => ~reported
    /\ sector \in {"compare", "branch"} =>
          dh = KERNEL_SIZE /\ (~reported => al = KERNEL_SIZE)
    /\ sector = "branch" => (carry <=> dh < al)
    /\ sector \notin {"off", "disk_load"} => Loaded
    /\ sector = "disk_error" => reported /\ al > KERNEL_SIZE

(* The machine is switched on once the image is built, with the sectors of *)
(* the kernel behind the boot sector when the image is whole.              *)
Chained ==
    /\ kernel \in Nat
    /\ sector # "off" => /\ script = "built"
                         /\ image.whole => disk = kernel

BootInv == /\ InterruptsInv
           /\ BuildInv
           /\ SectorTypeOK
           /\ ReadJudged
           /\ Chained

-----------------------------------------------------------------------------
(* The script does nothing to the image any more once it has built it.     *)
LEMMA BuiltStays ==
    ASSUME script = "built", BuildNext
    PROVE  UNCHANGED <<script, image>>
BY DEF BuildNext, Script, StartCompilers, Poll, Wait, Check, Link,
       Concatenate, CompilerEnds

(* Each step of the boot is a step of one stage and leaves the others.     *)
LEMMA StageSteps ==
    ASSUME [BootNext]_bootVars
    PROVE  /\ [Next]_<<vars, user>>
           /\ [BuildNext]_buildVars
           /\ \/ UNCHANGED sectorVars
              \/ SectorStep /\ UNCHANGED buildVars
              \/ script = "built" /\ UNCHANGED buildVars
                 /\ \E n \in IF image.whole THEN {kernel} ELSE 0 .. kernel - 1 :
                       PowerOn(n)
           /\ kernel' = kernel
<1>1. CASE Building
    BY <1>1 DEF Building, machineVars
<1>2. CASE StartQemu
    BY <1>2 DEF StartQemu, machineVars
<1>3. CASE Loading
    BY <1>3 DEF Loading, machineVars
<1>4. CASE \/ Kernel(BootStep) \/ Kernel(Handler) \/ Kernel(AcceptHighest)
           \/ Kernel(PitTick) \/ Kernel(TimerTick) \/ Kernel(KeyboardActs)
    BY <1>4 DEF Kernel, Next
<1>5. CASE UNCHANGED bootVars
    BY <1>5 DEF bootVars, machineVars, buildVars
<1>. QED
    BY <1>1, <1>2, <1>3, <1>4, <1>5 DEF BootNext

(* Before the build nothing has been loaded. *)
LEMMA InitBootInv == BootInit => BootInv
<1>. SUFFICES ASSUME BootInit PROVE BootInv
    OBVIOUS
<1>1. InterruptsInv
    BY InitInterruptsInv DEF BootInit
<1>2. BuildInv
    BY InitEstablishes DEF BootInit
<1>3. SectorTypeOK /\ ReadJudged
    BY DEF BootInit, SectorInit, SectorTypeOK, ReadJudged
<1>4. Chained
    BY BootAssumption DEF BootInit, SectorInit, Chained, BootAssumption
<1>. QED
    BY <1>1, <1>2, <1>3, <1>4 DEF BootInv

(* The boot sector keeps what is known of its read.                        *)
LEMMA SectorKeepsInv ==
    ASSUME SectorTypeOK, ReadJudged, SectorStep
    PROVE  /\ SectorTypeOK' /\ ReadJudged'
           /\ disk' = disk /\ sector # "off" /\ sector' # "off"
<1>. USE BootAssumption DEF BootAssumption, SectorTypeOK, ReadJudged, Loaded
<1>1. CASE ReadSectors
  <2>1. /\ sector = "disk_load" /\ sector' = "compare" /\ dh' = KERNEL_SIZE
        /\ disk' = disk /\ reported' = carry' /\ carry' \in BOOLEAN
      BY <1>1 DEF ReadSectors
  <2>2. al' \in Nat /\ memory' \in Nat
      BY <1>1, SMT DEF ReadSectors, Min2
  <2>3. ~carry' => al' = KERNEL_SIZE /\ memory' = KERNEL_SIZE /\ memory' <= disk'
      BY <1>1 DEF ReadSectors
  <2>. QED
      BY <2>1, <2>2, <2>3
<1>2. CASE Compare
  <2>1. /\ sector = "compare" /\ sector' = "branch"
        /\ carry' = (dh < al)
        /\ UNCHANGED <<disk, dh, al, reported, memory>>
      BY <1>2 DEF Compare
  <2>2. carry' \in BOOLEAN
      BY <2>1, SMT
  <2>3. carry' <=> dh' < al'
      BY <2>1, Zenon
  <2>. QED
      BY <2>1, <2>2, <2>3
<1>3. CASE Branch
  <2>1. sector = "branch" /\ UNCHANGED <<disk, reported, memory>>
      BY <1>3 DEF Branch
  <2>2. CASE carry /\ dh # al
    <3>1. sector' = "disk_error" /\ UNCHANGED <<dh, al, carry>>
        BY <1>3, <2>2 DEF Branch
    <3>2. al > KERNEL_SIZE /\ al # KERNEL_SIZE
        BY <2>1, <2>2, SMT
    <3>3. reported
        BY <2>1, <3>2
    <3>. QED
        BY <2>1, <3>1, <3>2, <3>3
  <2>3. CASE ~(carry /\ dh # al)
    <3>1. /\ sector' = "protected_mode"
          /\ dh' = 0 /\ al' = 0 /\ carry' = FALSE
        BY <1>3, <2>3 DEF Branch
    <3>. QED
        BY <2>1, <3>1
  <2>. QED
      BY <2>2, <2>3
<1>4. CASE CallKernel
    BY <1>4 DEF CallKernel
<1>. QED
    BY <1>1, <1>2, <1>3, <1>4 DEF SectorStep

(* Every step of every stage keeps the invariant. *)
LEMMA BootStepsKeepInv == BootInv /\ [BootNext]_bootVars => BootInv'
<1>. SUFFICES ASSUME BootInv, [BootNext]_bootVars PROVE BootInv'
    OBVIOUS
<1>1. InterruptsInv'
    BY StageSteps, NextKeepsInterruptsInv DEF BootInv
<1>2. BuildInv'
    BY StageSteps, StepPreserves DEF BootInv
<1>3. kernel' = kernel
    BY StageSteps
<1>4. CASE UNCHANGED sectorVars
  <2>1. SectorTypeOK' /\ ReadJudged'
      BY <1>4 DEF BootInv, SectorTypeOK, ReadJudged, Loaded, sectorVars
  <2>2. Chained'
      BY <1>3, <1>4, StageSteps, BuiltStays
      DEF BootInv, Chained, sectorVars, buildVars
  <2>. QED
      BY <1>1, <1>2, <2>1, <2>2 DEF BootInv
<1>5. CASE SectorStep /\ UNCHANGED buildVars
    BY <1>1, <1>2, <1>3, <1>5, SectorKeepsInv DEF BootInv, Chained, buildVars
<1>6. ASSUME script = "built", UNCHANGED buildVars,
             NEW n \in IF image.whole THEN {kernel} ELSE 0 .. kernel - 1,
             PowerOn(n)
      PROVE  BootInv'
  <2>1. n \in Nat /\ (image.whole => n = kernel)
      BY <1>6, SMT DEF BootInv, Chained
  <2>2. SectorTypeOK' /\ ReadJudged'
      BY <1>6, <2>1 DEF PowerOn, BootInv, SectorTypeOK, ReadJudged
  <2>3. Chained'
      BY <1>3, <1>6, <2>1 DEF PowerOn, BootInv, Chained, buildVars
  <2>. QED
      BY <1>1, <1>2, <2>2, <2>3 DEF BootInv
<1>. QED
    BY <1>4, <1>5, <1>6, StageSteps

(* The invariant holds at every moment of every execution. *)
THEOREM BootInvariant == BootSpec => []BootInv
BY InitBootInv, BootStepsKeepInv, PTL DEF BootSpec

-----------------------------------------------------------------------------
(* What the invariant says of the boot.                                    *)

(* The boot sector stops only where the BIOS claims to have read more than *)
(* it was asked for (boot_sect.asm:119), whatever KERNEL_SIZE is.          *)
THEOREM StopsOnlyOnExcess == BootSpec => []StopsOnExcessOnly
<1>1. BootInv => StopsOnExcessOnly
    BY DEF BootInv, ReadJudged, StopsOnExcessOnly
<1>. QED
    BY <1>1, BootInvariant, PTL

(* A kernel of which sectors are missing is called only after an error of  *)
(* the BIOS, a failure of cat, or when KERNEL_SIZE is too small for it     *)
(* (boot_sect.asm:106, build_utils.py:67).                                 *)
THEOREM MissingSectorsHaveCause == BootSpec => []IncompleteHasCause
<1>1. BootInv => IncompleteHasCause
  <2>. SUFFICES ASSUME BootInv, sector = "kernel", memory # kernel,
                       ~reported, image.whole
                PROVE  kernel > KERNEL_SIZE
      BY DEF IncompleteHasCause
  <2>1. memory = KERNEL_SIZE /\ memory <= disk
      BY DEF BootInv, ReadJudged, Loaded
  <2>2. disk = kernel /\ kernel \in Nat
      BY DEF BootInv, Chained
  <2>. QED
      BY <2>1, <2>2, BootAssumption, SMT DEF BootAssumption
<1>. QED
    BY <1>1, BootInvariant, PTL

(* The kernel and the script are, as stages of the boot, the machines that *)
(* Interrupts and BuildScript specify: they do nothing else.               *)
THEOREM StagesAsSpecified ==
    BootSpec => /\ Init /\ [][Next]_<<vars, user>>
                /\ BuildInit /\ [][BuildNext]_buildVars
<1>1. BootInit => Init /\ BuildInit
    BY DEF BootInit
<1>2. [BootNext]_bootVars => [Next]_<<vars, user>> /\ [BuildNext]_buildVars
    BY StageSteps
<1>. QED
    BY <1>1, <1>2, PTL DEF BootSpec

(* So the kernel that was booted takes no interrupt before it is ready     *)
(* (kernel.c:279, 281, 342) ...                                            *)
THEOREM BootedReadyWhenTaken == BootSpec => []ReadyForInterrupts
BY BootInvariant, InvReady, PTL DEF BootInv

(* ... acknowledges every interrupt while the keyboard sends no reply ...  *)
THEOREM BootedServicesEnd == BootSpec => []EveryServiceEnds
BY BootInvariant, InvServicesEnd, PTL DEF BootInv

(* ... and loses no byte of the keyboard on CPU 0 ...                      *)
THEOREM BootedBytesAreRead == BootSpec => []NoByteMissed
BY BootInvariant, InvBytesRead, PTL DEF BootInv

(* ... but is deaf for ever once a byte has come too early.                *)
THEOREM BootedStuckBytesStay == BootSpec => DeafForever
<1>1. BootInv /\ [BootNext]_bootVars =>
          [Missed => Missed' /\ counts'.keyboard = counts.keyboard]_vars
    BY StuckStaysStuck, StageSteps DEF BootInv
<1>. QED
    BY <1>1, BootInvariant, PTL DEF BootSpec, DeafForever

(* ... and after a reply of the keyboard takes no interrupt at all ...     *)
THEOREM BootedAbandonedMasksAll == BootSpec => AbandonedForever
<1>1. BootInv /\ [BootNext]_bootVars =>
          [Abandoned => Abandoned' /\ counts' = counts]_vars
    BY AbandonedStays, StageSteps DEF BootInv
<1>. QED
    BY <1>1, BootInvariant, PTL DEF BootSpec, AbandonedForever

(* ... nor a tick of the PIT or a key on a CPU other than 0.               *)
THEOREM BootedOtherCpuIsDead == BootSpec => []DeadOnOtherCpu
<1>1. BootInv => DeadOnOtherCpu
    BY DEF BootInv, InterruptsInv, CountsOf, DeadOnOtherCpu
<1>. QED
    BY <1>1, BootInvariant, PTL
=============================================================================
