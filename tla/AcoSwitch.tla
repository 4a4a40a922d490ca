----------------------------- MODULE AcoSwitch -----------------------------
(***************************************************************************)
(* The switch itself: acosw of codes/aco_httpd/lib/acosw.S, on the two     *)
(* 64-bit processors it is written for, and what becomes of a coroutine    *)
(* whose function returns.  Of the registers the module keeps the floating *)
(* point control word and, as one value, the callee-saved integer          *)
(* registers; the stack pointer is the business of AcoStack.               *)
(***************************************************************************)
EXTENDS Naturals

CONSTANTS
    Arch,         \* "x86_64" or "aarch64"
    Cos,          \* the non-main coroutines
    MainCo,       \* the main coroutine
    Controls,     \* floating point control words: rounding modes, traps
    Gprs,         \* contents of the callee-saved integer registers
    ZeroGpr,      \* what memset leaves in co->reg
    MaxEntries    \* bound on the times a coroutine function is entered

ASSUME AcoSwitchAssumption ==
    /\ Arch \in {"x86_64", "aarch64"}
    /\ MainCo \notin Cos
    /\ ZeroGpr \in Gprs
    /\ MaxEntries \in Nat

VARIABLES
    running,      \* the coroutine the processor runs
    cpu_gpr, cpu_fpu,   \* the registers of the processor
    reg_gpr, reg_fpu,   \* co->reg of every coroutine
    reg_pc,       \* co->reg[ACO_REG_IDX_RETADDR]: "fp" or "after acosw"
    created,      \* the coroutines aco_create has made
    gtls_fpu,     \* aco_gtls_fpucw_mxcsr
    entries,      \* how often the function of a coroutine was entered
    aborted       \* the process has died

vars == <<running, cpu_gpr, cpu_fpu, reg_gpr, reg_fpu, reg_pc, created,
          gtls_fpu, entries, aborted>>

All == Cos \cup {MainCo}

(* aco_thread_init has stored the control word of the thread.              *)
Init == \E f \in Controls :
    /\ running = MainCo
    /\ created = {MainCo}
    /\ cpu_gpr = ZeroGpr
    /\ cpu_fpu = f
    /\ gtls_fpu = f
    /\ reg_gpr = [t \in All |-> ZeroGpr]
    /\ reg_fpu = [t \in All |-> f]
    /\ reg_pc = [t \in All |-> "fp"]
    /\ entries = [c \in Cos |-> 0]
    /\ aborted = FALSE

(* aco_create: a coroutine starts with zeroed registers, the address of its
   function and the control word aco_thread_init stored.                   *)
Create(c) == /\ running = MainCo
             /\ c \notin created
             /\ created' = created \cup {c}
             /\ reg_gpr' = [reg_gpr EXCEPT ![c] = ZeroGpr]
             /\ reg_fpu' = [reg_fpu EXCEPT ![c] = gtls_fpu]
             /\ reg_pc' = [reg_pc EXCEPT ![c] = "fp"]
             /\ UNCHANGED <<running, cpu_gpr, cpu_fpu, gtls_fpu, entries,
                            aborted>>

(* Where acosw stores the control word of the processor: in from_co (rdi) on
   x86_64, but in to_co (x1) on aarch64.                                   *)
ControlSlotTo(from, to) == to

ControlSlot(from, to) == IF Arch = "aarch64" THEN to ELSE from

(* Where acosw stores the callee-saved registers.                          *)
GprSlotTo(from, to) == to

GprSlot(from, to) == from

(* acosw: all the stores of from_co, then all the loads of to_co.  A first
   switch into a coroutine jumps to its function.                          *)
Switch(from, to) ==
    /\ running = from
    /\ to \in Cos => entries[to] < MaxEntries
    /\ running' = to
    /\ reg_gpr' = [reg_gpr EXCEPT ![GprSlot(from, to)] = cpu_gpr]
    /\ reg_fpu' = [reg_fpu EXCEPT ![ControlSlot(from, to)] = cpu_fpu]
    /\ reg_pc' = [reg_pc EXCEPT ![from] = "after acosw"]
    /\ cpu_gpr' = reg_gpr'[to]
    /\ cpu_fpu' = reg_fpu'[to]
    /\ entries' = IF to \in Cos /\ reg_pc[to] = "fp"
                  THEN [entries EXCEPT ![to] = @ + 1]
                  ELSE entries
    /\ UNCHANGED <<created, gtls_fpu, aborted>>

Resume(c) == c \in created /\ Switch(MainCo, c)

Yield(c) == Switch(c, MainCo)

(* The code that runs uses its registers and may set the control word
   (fesetround, feenableexcept).                                           *)
Compute(g) == /\ cpu_gpr' = g
              /\ UNCHANGED <<running, cpu_fpu, reg_gpr, reg_fpu, reg_pc,
                             created, gtls_fpu, entries, aborted>>

SetControl(f) == /\ cpu_fpu' = f
                 /\ UNCHANGED <<running, cpu_gpr, reg_gpr, reg_fpu, reg_pc,
                                created, gtls_fpu, entries, aborted>>

(* Where a coroutine function that returns goes.  x86_64 pops the word at
   align_retptr, the address of aco_funcp_protector_asm.  aarch64 returns to
   x30, which acosw loaded with the address of the function itself.        *)
ReturnTargetFp(c) == "fp"

ReturnTarget(c) == IF Arch = "aarch64" THEN "fp" ELSE "protector"

Return(c) == /\ running = c
             /\ entries[c] < MaxEntries
             /\ aborted' = (ReturnTarget(c) = "protector")
             /\ entries' = IF ReturnTarget(c) = "fp"
                           THEN [entries EXCEPT ![c] = @ + 1]
                           ELSE entries
             /\ UNCHANGED <<running, cpu_gpr, cpu_fpu, reg_gpr, reg_fpu,
                            reg_pc, created, gtls_fpu>>

Next == /\ ~aborted
        /\ \/ \E c \in Cos : Create(c) \/ Resume(c) \/ Yield(c) \/ Return(c)
           \/ \E g \in Gprs : Compute(g)
           \/ \E f \in Controls : SetControl(f)

Spec == Init /\ [][Next]_vars

-----------------------------------------------------------------------------
(* The registers of a coroutine: the processor's while it runs, else the
   ones that its next switch will load.                                    *)
ControlOf(t) == IF running = t THEN cpu_fpu ELSE reg_fpu[t]
GprOf(t) == IF running = t THEN cpu_gpr ELSE reg_gpr[t]

(* Nobody but the coroutine that runs changes its floating point control
   word: a rounding mode set in one coroutine is neither lost when it yields
   nor seen by another.                                                    *)
ControlKept ==
    [][\A t \in created : ControlOf(t)' # ControlOf(t)
                            => running = t /\ running' = t]_vars

(* The same of the callee-saved integer registers.                         *)
CalleeSavedKept ==
    [][\A t \in created : GprOf(t)' # GprOf(t)
                            => running = t /\ running' = t]_vars

(* The function of a coroutine is entered once: when it returns instead of
   calling aco_exit, the protector stops it.                               *)
ReturnIsCaught == \A c \in Cos : entries[c] <= 1
============================================================================
