------------------------------- MODULE Panic -------------------------------
(***************************************************************************)
(* The panic reporter: InterruptDescriptorTable::kpanic and haltCatchFire *)
(* of src/kernel/Source/arch/idt.hh.                                       *)
(*                                                                         *)
(* The processor runs one context at a time; an interrupt or NMI pushes a  *)
(* new context on top of the one it interrupts.  `stack` holds those       *)
(* contexts, innermost last.  A context running kpanic advances through    *)
(* the groups of writes the code makes, one sink per group:                *)
(*   "out"  banner, message and "System halted." on the primary sink (COM1)*)
(*   "log"  banner and message on the debug sink (COM2)                    *)
(*   "dump" the register dump on the debug sink, only when ctx != nullptr  *)
(*   "tail" "System halted." on the debug sink, then haltCatchFire         *)
(*   "hlt"  cli; for (;;) hlt;                                             *)
(* The text written is abstracted to the panic it belongs to and the part. *)
(* Serial::put spins until the UART is ready; module Boot shows that a    *)
(* present or absent 16550 always is eventually, so each group completes.  *)
(***************************************************************************)
EXTENDS Integers, Sequences

Sinks == {"primary", "debug"}

VARIABLES
  stack,   \* the interrupted and running contexts, innermost last
  out      \* sink -> the report parts written to it, in order

panicVars == <<stack, out>>

Top == stack[Len(stack)]
\* The kind of context running now: "code" when no handler is active.
TopKind == IF stack = <<>> THEN "code" ELSE Top.kind
PanicPcs == {"out", "log", "dump", "tail"}

\* The context kpanic(ctx, msg) starts; origin stands for the message.
Kpanic(origin, ctx) ==
  [kind |-> "panic", origin |-> origin, ctx |-> ctx, pc |-> "out"]

\* haltCatchFire entered directly (the halt handler of vectors 0..31).
HaltCatchFire(origin) ==
  [kind |-> "halt", origin |-> origin, ctx |-> TRUE, pc |-> "hlt"]

\* The sink each group of writes goes to.
SinkOf(pc) == IF pc = "out" THEN "primary" ELSE "debug"

\* Mutant: haltCatchFire is not called after the closing line; the context
\* goes on running instead of parking.
PcAfter_NoHalt(f) ==
  CASE f.pc = "out"  -> "log"
    [] f.pc = "log"  -> IF f.ctx THEN "dump" ELSE "tail"
    [] f.pc = "dump" -> "tail"
    [] f.pc = "tail" -> "run"

\* The group that follows a group.
PcAfter(f) ==
  CASE f.pc = "out"  -> "log"
    [] f.pc = "log"  -> IF f.ctx THEN "dump" ELSE "tail"
    [] f.pc = "dump" -> "tail"
    [] f.pc = "tail" -> "hlt"

\* Mutant: the context advances before it records what it writes.
PanicStep_AdvanceFirst ==
  /\ stack # <<>>
  /\ Top.kind = "panic" /\ Top.pc \in PanicPcs
  /\ out' = [out EXCEPT ![SinkOf(Top.pc)] =
               Append(@, [at |-> Len(stack), origin |-> Top.origin,
                          part |-> PcAfter(Top)])]
  /\ stack' = [stack EXCEPT ![Len(stack)] = [Top EXCEPT !.pc = PcAfter(Top)]]

\* The innermost context writes its next group.
PanicStep ==
  /\ stack # <<>>
  /\ Top.kind = "panic" /\ Top.pc \in PanicPcs
  /\ out' = [out EXCEPT ![SinkOf(Top.pc)] =
               Append(@, [at |-> Len(stack), origin |-> Top.origin,
                          part |-> Top.pc])]
  /\ stack' = [stack EXCEPT ![Len(stack)] = [Top EXCEPT !.pc = PcAfter(Top)]]

\* The innermost context is parked in hlt: the processor keeps executing
\* and nothing changes.
Halted == stack # <<>> /\ Top.pc = "hlt"

\* The parts a complete report of context f consists of, per sink.
ReportParts(f) ==
  [primary |-> <<"out">>,
   debug   |-> IF f.ctx THEN <<"log", "dump", "tail">> ELSE <<"log", "tail">>]

\* The parts sink s has received from the panic at stack position i, in
\* order (a kpanic context never returns, so its position names it).
Written(s, i) ==
  LET rs == SelectSeq(out[s], LAMBDA r : r.at = i)
  IN  [k \in 1..Len(rs) |-> rs[k].part]

=============================================================================
