----------------------------- MODULE Exceptions -----------------------------
(***************************************************************************)
(* The exception handlers of kernel.c: what the CPU pushes, which of it    *)
(* each handler reads as what, and what it tells through printf (module    *)
(* Printf) before it halts.  A fault may come at any point of the kernel,  *)
(* in the middle of a printf of its own too; a non-maskable interrupt      *)
(* comes at any time, but not during the service of another.               *)
(***************************************************************************)
EXTENDS Printf

CONSTANTS Eip, ErrorCode,  \* what the CPU pushes
          Vectors,         \* the vectors that are raised, some of 0 .. 31
          Calls            \* the calls of printf the kernel makes

ASSUME ExceptionsAssumption == /\ {Eip, ErrorCode} \subseteq 0 .. Word - 1
                               /\ Vectors \subseteq 0 .. 31
                               /\ {"at", "code", "%", "x", "u"} \subseteq Alphabet
                               /\ \A c \in Calls : WellPassed(c.format, c.words)

VARIABLES cpu,     \* "kernel", "handler" or "halted"
          vector,  \* of the handler
          blocked  \* whether an NMI is in service

excVars == <<cpu, vector, blocked>>

-----------------------------------------------------------------------------
NmiVector == 2
UdVector == 6

(* Vectors for which the CPU pushes an error code, under eip. *)
PushesCode == {8, 10, 11, 12, 13, 14, 17, 21, 29, 30}
Pushed(v) == IF v \in PushesCode THEN <<ErrorCode, Eip>> ELSE <<Eip>>

(* The two layouts of idt.h. *)
InterruptFrame == [eip |-> 1]
InterruptFrame_ErrorCode == [error_code |-> 1, eip |-> 2]

\* Faulty variants, here and below, are in no specification: a run that put
\* one in the place of its original must fail.
\* Faulty: the handler of vector 13 is not set.
HandlerWithoutGp(v) ==
    CASE v = 8  -> "exception_double_falt"
      [] v = 10 -> "EXCEPTION_HANDLER__ERROR_CODE"
      [] OTHER  -> "EXCEPTION_HANDLER"

(* The descriptors _start has set last. *)
HandlerOf(v) ==
    CASE v = 8  -> "exception_double_falt"
      [] v = 13 -> "exception_gp"
      [] v = 10 -> "EXCEPTION_HANDLER__ERROR_CODE"
      [] OTHER  -> "EXCEPTION_HANDLER"

At == [chars |-> <<"at">>, words |-> 0]
Code == [chars |-> <<"code">>, words |-> 0]
Hex == [chars |-> <<"%", "x">>, words |-> 1]
Unum == [chars |-> <<"%", "u">>, words |-> 1]

(* What a handler prints.  exception_double_falt takes eip for the code;   *)
(* it and exception_gp call print_unum and print_hex_u32 directly.         *)
Report(h, frame) ==
    LET error == InterruptFrame_ErrorCode
        both == <<frame[error.error_code], frame[error.eip]>>
    IN  CASE h = "exception_double_falt" ->
               [format |-> <<Code, Unum>>, words |-> <<frame[error.eip]>>]
          [] h = "exception_gp" ->
               [format |-> <<Code, Unum, At, Hex>>, words |-> both]
          [] h = "EXCEPTION_HANDLER__ERROR_CODE" ->
               [format |-> <<Code, Hex, At, Hex>>, words |-> both]
          [] h = "EXCEPTION_HANDLER" ->
               [format |-> <<At, Hex>>, words |-> <<frame[InterruptFrame.eip]>>]

ExcInit == /\ PrintfInit
           /\ cpu = "kernel" /\ vector = NmiVector /\ blocked = FALSE

KernelPrints == /\ cpu = "kernel" /\ printf = "idle"
                /\ \E c \in Calls : Call(c.format, c.words)
                /\ UNCHANGED excVars

Enter(v) == /\ cpu' = "handler"
            /\ vector' = v
            /\ LET report == Report(HandlerOf(v), Pushed(v))
               IN  Call(report.format, report.words)

Raise == /\ cpu = "kernel" /\ printf # "trapped"
         /\ \E v \in Vectors \ {NmiVector} : Enter(v)
         /\ UNCHANGED blocked

(* A trap the compiler has put into printf. *)
Trap == /\ cpu = "kernel" /\ printf = "trapped"
        /\ Enter(UdVector)
        /\ UNCHANGED blocked

(* It gets the CPU out of hlt, too. *)
Nmi == /\ ~blocked /\ blocked' = TRUE
       /\ Enter(NmiVector)

\* Faulty: the handler does not halt.
ReturnFromHandler == /\ cpu = "handler" /\ printf = "idle"
                     /\ cpu' = "kernel"
                     /\ UNCHANGED <<printfVars, vector, blocked>>

(* cli; hlt *)
Halt == /\ cpu = "handler" /\ printf = "idle"
        /\ cpu' = "halted"
        /\ UNCHANGED <<printfVars, vector, blocked>>

PrintOn == cpu \in {"kernel", "handler"} /\ PrintfStep /\ UNCHANGED excVars

ExcNext == KernelPrints \/ PrintOn \/ Raise \/ Trap \/ Nmi \/ Halt

ExcSpec == /\ ExcInit
           /\ [][ExcNext]_<<printfVars, excVars>>
           /\ WF_<<printfVars, excVars>>(PrintOn)
           /\ WF_<<printfVars, excVars>>(Halt)
           /\ WF_<<printfVars, excVars>>(Trap)

-----------------------------------------------------------------------------
(* Properties, besides those of Printf.                                    *)

(* What the report gives after a label. *)
Number(p) == IF p.directive = "x" THEN Value(From(p, 2), HexBase)
                                  ELSE Value(p.text, 10)
Says(label, number) ==
    \A k \in 1 .. Len(out) - 1 : out[k].text = label => Number(out[k + 1]) = number

(* The report of a fault gives its address as its address and its error    *)
(* code as its error code, except that the double fault's gives the        *)
(* address as the code (kernel.c:25), and the handlers of the other        *)
(* vectors with a code, which expect none, give the code as the address.   *)
ReportTells ==
    cpu = "halted" =>
        /\ Says(<<"code">>, IF vector = 8 THEN Eip ELSE ErrorCode)
        /\ Says(<<"at">>, IF vector \in PushesCode \ {10, 13} THEN ErrorCode ELSE Eip)

(* After an exception the kernel never runs again, although an NMI wakes   *)
(* the CPU: it is served by a handler that halts, and no other NMI can     *)
(* come before that one's service is over, which is never.                 *)
StaysHalted == [][cpu # "kernel" => cpu' # "kernel"]_excVars

(* A trap in the middle of a number comes to its end in a report, and the  *)
(* CPU comes to rest.                                                      *)
EndsHalted == (printf = "trapped" \/ cpu = "handler") ~> cpu = "halted"
=============================================================================
