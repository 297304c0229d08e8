-------------------------------- MODULE IDT --------------------------------
(***************************************************************************)
(* The interrupt vector table of src/kernel/Source/arch/idt.hh            *)
(* (class InterruptDescriptorTable) with the dispatch path that feeds the *)
(* panic reporter.                                                         *)
(*                                                                         *)
(* real_handler_table is `handler`; the gate attribute of each IDT entry   *)
(* is `gate`.  The per-vector trampolines (isr_stub_table) and the         *)
(* real_handler_table array are assembly outside src/: their behaviour,    *)
(* capture the registers and call handler[v], is taken from the spec.      *)
(*                                                                         *)
(* Events that start a dispatch:                                           *)
(*  - Raise(v): the running code faults or executes int v;                 *)
(*  - Nmi: a non-maskable interrupt.  cli does not mask it; the CPU blocks *)
(*    further NMIs from delivery until the next iretq.                     *)
(* Maskable IRQs are not modelled: no code executes sti and the kernel is  *)
(* entered with interrupts disabled.                                       *)
(***************************************************************************)
EXTENDS Panic, SequencesExt

CONSTANTS
  Vectors,            \* the vectors considered, a subset of 0..255
  Handlers,           \* custom handlers a caller may register
  UseTrapGate,        \* values of kIdtUseTrapGateForExceptions considered
  PanicOnException,   \* values of kIdtPanicOnException considered
  NmiPossible,        \* whether the platform may deliver an NMI
  MaxDepth            \* bound on nested contexts

ASSUME Vectors \subseteq 0..255 /\ 2 \in Vectors
ASSUME MaxDepth \in Nat \ {0}
ASSUME UseTrapGate \subseteq BOOLEAN /\ PanicOnException \subseteq BOOLEAN

NmiVector == 2

\* exception_names[0..31]
ExceptionNames ==
  << "Divide-by-zero Error", "Debug", "Non-maskable Interrupt", "Breakpoint",
     "Overflow", "Bound Range Exceeded", "Invalid Opcode",
     "Device Not Available", "Double Fault", "Coprocessor Segment Overrun",
     "Invalid TSS", "Segment Not Present", "Stack Segment Fault",
     "General Protection Fault", "Page Fault", "Reserved",
     "x87 Floating-Point Exception", "Alignment Check", "Machine Check",
     "SIMD Floating-Point Exception", "Virtualization Exception",
     "Control Protection Exception", "Reserved", "Reserved", "Reserved",
     "Reserved", "Reserved", "Reserved", "Hypervisor Injection Exception",
     "VMM Communication Exception", "Security Exception", "Reserved" >>

VARIABLES
  handler,     \* real_handler_table
  gate,        \* idt_table[v].attribute
  loaded,      \* lidt executed
  nmiBlocked   \* the CPU's NMI blocking, set on NMI delivery, cleared by iretq

vars == <<panicVars, handler, gate, loaded, nmiBlocked>>

\* The message defaultInterruptHandler passes to kpanic for vector v.
DefaultMessage(v) ==
  IF v < 32 THEN [vector |-> v, name |-> ExceptionNames[v + 1]]
            ELSE [vector |-> v, name |-> "Unhandled Interrupt Vector"]

\* A message kernel code passes to kpanic, e.g. the allocator's.
KernelMessage == [vector |-> -1, name |-> "kernel"]

Init ==
  /\ stack = <<>>
  /\ out = [s \in Sinks |-> <<>>]
  /\ handler = [v \in Vectors |-> "none"]
  /\ gate = [v \in Vectors |-> "none"]
  /\ loaded = FALSE
  /\ nmiBlocked = FALSE

\* Kernel code outside any handler is running.  A custom handler is opaque
\* (none is in src/): it runs and returns.
CodeRunning == TopKind = "code"

\* InterruptDescriptorTable::init: every gate and default handler, then lidt.
\* The two constexpr flags are fixed by the build; each build the model
\* considers is one choice of them.
IdtInit ==
  /\ ~loaded /\ stack = <<>>
  /\ \E trap \in UseTrapGate, pe \in PanicOnException :
       /\ gate' = [v \in Vectors |->
                    IF v < 32 THEN (IF trap THEN "trap" ELSE "interrupt")
                              ELSE "interrupt"]
       /\ handler' = [v \in Vectors |->
                       IF v < 32 /\ ~pe THEN "halt" ELSE "default"]
  /\ loaded' = TRUE
  /\ UNCHANGED <<panicVars, nmiBlocked>>

\* registerHandler(vector, h): rebinds only a vector still bound to the
\* default or the halt handler.
registerHandler(v, h) ==
  handler' = IF handler[v] = "default" \/ handler[v] = "halt"
             THEN [handler EXCEPT ![v] = h]
             ELSE handler

RegisterHandler ==
  /\ loaded /\ CodeRunning
  /\ \E v \in Vectors, h \in Handlers : registerHandler(v, h)
  /\ UNCHANGED <<panicVars, gate, loaded, nmiBlocked>>

\* The trampoline for v has saved the registers; handler[v] is called.
\* defaultInterruptHandler calls kpanic with the context; the halt handler
\* is haltCatchFire; a custom handler runs and later returns.
Dispatch(v) ==
  /\ Len(stack) < MaxDepth
  /\ stack' = Append(stack,
       CASE handler[v] = "default" -> Kpanic(DefaultMessage(v), TRUE)
         [] handler[v] = "halt"    -> HaltCatchFire(DefaultMessage(v))
         [] OTHER -> [kind |-> "custom", origin |-> [vector |-> v, name |-> "custom"],
                      ctx |-> TRUE, pc |-> "run"])

Raise ==
  /\ loaded /\ CodeRunning
  /\ \E v \in Vectors : Dispatch(v)
  /\ UNCHANGED <<out, handler, gate, loaded, nmiBlocked>>

Nmi ==
  /\ loaded /\ NmiPossible /\ ~nmiBlocked
  /\ Dispatch(NmiVector)
  /\ nmiBlocked' = TRUE
  /\ UNCHANGED <<out, handler, gate, loaded>>

\* A custom handler returns: iretq resumes the interrupted context and ends
\* NMI blocking.
CustomReturn ==
  /\ stack # <<>> /\ Top.kind = "custom"
  /\ stack' = SubSeq(stack, 1, Len(stack) - 1)
  /\ nmiBlocked' = FALSE
  /\ UNCHANGED <<out, handler, gate, loaded>>

\* Kernel code calls kpanic(nullptr, msg) itself (the allocator does).
PanicCall ==
  /\ loaded /\ CodeRunning
  /\ Len(stack) < MaxDepth
  /\ stack' = Append(stack, Kpanic(KernelMessage, FALSE))
  /\ UNCHANGED <<out, handler, gate, loaded, nmiBlocked>>

Report ==
  /\ PanicStep
  /\ UNCHANGED <<handler, gate, loaded, nmiBlocked>>

Idle ==
  /\ Halted
  /\ UNCHANGED vars

Next ==
  \/ IdtInit
  \/ RegisterHandler
  \/ Raise
  \/ Nmi
  \/ CustomReturn
  \/ PanicCall
  \/ Report
  \/ Idle

\* kpanic runs without a pause once it starts; only an NMI handler can run
\* in between, and NMIs do not arrive back to back forever, so a panic that
\* can write infinitely often does write (strong fairness).  A custom
\* handler is assumed to return, as the spec's non-fatal path says.
Spec == Init /\ [][Next]_vars /\ SF_vars(Report) /\ WF_vars(CustomReturn)

-----------------------------------------------------------------------------
(* Properties                                                             *)

Origins_ == {KernelMessage} \cup {DefaultMessage(v) : v \in Vectors}
            \cup [vector : Vectors, name : {"custom"}]

Frames_ == [kind : {"panic", "halt", "custom"},
            origin : Origins_,
            ctx : BOOLEAN, pc : PanicPcs \cup {"hlt", "run"}]

TypeOK ==
  /\ stack \in Seq(Frames_) /\ Len(stack) <= MaxDepth
  /\ out \in [Sinks -> Seq([at : 1..MaxDepth, origin : Origins_,
                            part : PanicPcs])]
  /\ handler \in [Vectors -> {"none", "default", "halt"} \cup Handlers]
  /\ gate \in [Vectors -> {"none", "trap", "interrupt"}]
  /\ loaded \in BOOLEAN /\ nmiBlocked \in BOOLEAN

\* The first panic's report: when the processor halts, the panic that was
\* entered first (the outermost kpanic context) has its complete report.
FirstReportComplete ==
  Halted =>
    \A i \in 1..Len(stack) :
      stack[i].kind = "panic" /\ (\A j \in 1..(i - 1) : stack[j].kind # "panic")
        => \A s \in Sinks : Written(s, i) = ReportParts(stack[i])[s]

\* kpanic never returns and ends with the processor halted: once a panic
\* has started, the processor is eventually parked in haltCatchFire.
PanicEventuallyHalts ==
  [](TopKind = "panic" => <>Halted)

=============================================================================
