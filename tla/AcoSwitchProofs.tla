-------------------------- MODULE AcoSwitchProofs ---------------------------
(***************************************************************************)
(* Proofs about AcoSwitch, for any number of coroutines and any contents   *)
(* of the registers.  What is said of both processors has no assumption    *)
(* about Arch; on aarch64 the others do not hold.                          *)
(***************************************************************************)
EXTENDS AcoSwitch, TLAPS

(* Every register save area exists, and what entries says of a coroutine:
   it was entered only if it was created, and not once more as long as its
   return address is behind acosw or it runs.                              *)
RegsSound == /\ running \in All
             /\ created \subseteq All
             /\ reg_gpr \in [All -> Gprs] /\ cpu_gpr \in Gprs
             /\ reg_fpu \in [All -> Controls] /\ cpu_fpu \in Controls
             /\ gtls_fpu \in Controls
             /\ reg_pc \in [All -> {"fp", "after acosw"}]
             /\ entries \in [Cos -> Nat]

EnteredOnce == \A c \in Cos :
                 /\ entries[c] <= 1
                 /\ entries[c] = 1 => /\ c \in created
                                      /\ reg_pc[c] = "after acosw" \/ running = c

LEMMA SwitchInit == Init => RegsSound /\ EnteredOnce
BY AcoSwitchAssumption DEF Init, RegsSound, EnteredOnce, All

LEMMA Counted ==
    ASSUME NEW f \in [Cos -> Nat], NEW c \in Cos
    PROVE  [f EXCEPT ![c] = @ + 1] \in [Cos -> Nat] /\ f[c] \in Nat
OBVIOUS

LEMMA FirstTime == ASSUME NEW n \in Nat, n <= 1, n # 1 PROVE n + 1 = 1 /\ n + 1 <= 1
OBVIOUS

(* The two sides of a switch are different coroutines.                     *)
LEMMA SwitchSides ==
    ASSUME NEW c \in Cos, Resume(c) \/ Yield(c)
    PROVE  \E from, to \in All : /\ from # to /\ Switch(from, to)
                                 /\ to \in {MainCo} \cup created
BY AcoSwitchAssumption DEF Resume, Yield, All

LEMMA SwitchTypes == RegsSound /\ [Next]_vars => RegsSound'
<1> SUFFICES ASSUME RegsSound, [Next]_vars PROVE RegsSound'
  OBVIOUS
<1> USE DEF RegsSound
<1>1. ASSUME NEW c \in Cos, Create(c) PROVE RegsSound'
  BY <1>1, AcoSwitchAssumption DEF Create, All
<1>2. ASSUME NEW from \in All, NEW to \in All, Switch(from, to) PROVE RegsSound'
  <2>1. /\ reg_gpr' \in [All -> Gprs] /\ reg_fpu' \in [All -> Controls]
        /\ reg_pc' \in [All -> {"fp", "after acosw"}]
    BY <1>2 DEF Switch
  <2>2. entries' \in [Cos -> Nat]
    <3>1. \/ entries' = entries
          \/ to \in Cos /\ entries' = [entries EXCEPT ![to] = @ + 1]
      BY <1>2 DEF Switch
    <3> QED BY <3>1, Counted
  <2> QED BY <1>2, <2>1, <2>2 DEF Switch
<1>3. ASSUME NEW c \in Cos, Return(c) PROVE RegsSound'
  <2>1. entries' \in [Cos -> Nat]
    BY <1>3, Counted DEF Return
  <2> QED BY <1>3, <2>1 DEF Return
<1>4. ASSUME NEW g \in Gprs, Compute(g) PROVE RegsSound'
  BY <1>4 DEF Compute
<1>5. ASSUME NEW f \in Controls, SetControl(f) PROVE RegsSound'
  BY <1>5 DEF SetControl
<1>6. CASE UNCHANGED vars
  BY <1>6 DEF vars
<1>7. ASSUME NEW c \in Cos, Resume(c) \/ Yield(c) PROVE RegsSound'
  BY <1>2, <1>7, SwitchSides
<1> QED BY <1>1, <1>3, <1>4, <1>5, <1>6, <1>7 DEF Next

LEMMA SwitchEnters ==
    ASSUME Arch = "x86_64", RegsSound, EnteredOnce, [Next]_vars
    PROVE  EnteredOnce'
<1> USE DEF RegsSound, EnteredOnce
<1>1. ASSUME NEW c \in Cos, Create(c) PROVE EnteredOnce'
  BY <1>1, AcoSwitchAssumption DEF Create, All
<1>2. ASSUME NEW from \in All, NEW to \in All, from # to, Switch(from, to),
             to \in {MainCo} \cup created
      PROVE  EnteredOnce'
  <2>1. /\ running = from /\ running' = to /\ UNCHANGED created
        /\ \A t \in All : reg_pc'[t] = IF t = from THEN "after acosw" ELSE reg_pc[t]
        /\ \A c \in Cos : entries'[c] = IF c = to /\ reg_pc[c] = "fp"
                                        THEN entries[c] + 1 ELSE entries[c]
    BY <1>2 DEF Switch
  <2>2. ASSUME NEW c \in Cos
        PROVE  /\ entries'[c] <= 1
               /\ entries'[c] = 1 => /\ c \in created'
                                     /\ reg_pc'[c] = "after acosw" \/ running' = c
    <3>1. c \in All /\ c # MainCo /\ entries[c] \in Nat
      BY AcoSwitchAssumption, Counted DEF All
    <3>2. CASE c = to /\ reg_pc[c] = "fp"
      <4>1. entries[c] # 1 /\ entries[c] <= 1 /\ c \in created
        BY <1>2, <2>1, <3>1, <3>2
      <4>2. entries'[c] = 1 /\ entries'[c] <= 1
        <5>1. entries'[c] = entries[c] + 1
          BY <2>1, <3>2
        <5>2. entries[c] + 1 = 1 /\ entries[c] + 1 <= 1
          BY <3>1, <4>1, FirstTime
        <5> QED BY <5>1, <5>2
      <4> QED BY <2>1, <3>2, <4>1, <4>2
    <3>3. CASE ~(c = to /\ reg_pc[c] = "fp")
      <4>1. entries'[c] = entries[c]
        BY <2>1, <3>3
      <4> QED BY <2>1, <3>1, <4>1
    <3> QED BY <3>2, <3>3
  <2> QED BY <2>2
<1>3. ASSUME NEW c \in Cos, Return(c) PROVE EnteredOnce'
  BY <1>3 DEF Return, ReturnTarget
<1>4. ASSUME NEW g \in Gprs, Compute(g) PROVE EnteredOnce'
  BY <1>4 DEF Compute
<1>5. ASSUME NEW f \in Controls, SetControl(f) PROVE EnteredOnce'
  BY <1>5 DEF SetControl
<1>6. CASE UNCHANGED vars
  BY <1>6 DEF vars
<1>7. ASSUME NEW c \in Cos, Resume(c) \/ Yield(c) PROVE EnteredOnce'
  BY <1>2, <1>7, SwitchSides
<1> QED BY <1>1, <1>3, <1>4, <1>5, <1>6, <1>7 DEF Next

(* On x86_64 the function of a coroutine is entered once, however often
   coroutines switch and wherever one of them returns.                     *)
THEOREM ReturnAlwaysCaught == Arch = "x86_64" => (Spec => []ReturnIsCaught)
<1> SUFFICES ASSUME Arch = "x86_64" PROVE Spec => []ReturnIsCaught
  OBVIOUS
<1>1. RegsSound /\ EnteredOnce /\ [Next]_vars => (RegsSound /\ EnteredOnce)'
  BY SwitchTypes, SwitchEnters
<1>2. EnteredOnce => ReturnIsCaught
  BY DEF EnteredOnce, ReturnIsCaught
<1> QED BY <1>1, <1>2, SwitchInit, PTL DEF Spec

-----------------------------------------------------------------------------
(* On x86_64 a control word is changed by nobody but its coroutine.        *)
THEOREM ControlAlwaysKept == Arch = "x86_64" => (Spec => ControlKept)
<1> SUFFICES ASSUME Arch = "x86_64" PROVE Spec => ControlKept
  OBVIOUS
<1>1. ASSUME RegsSound, [Next]_vars, NEW t \in created, ControlOf(t)' # ControlOf(t)
      PROVE  running = t /\ running' = t
  <2> USE DEF RegsSound, ControlOf
  <2>1. ASSUME NEW c \in Cos, Create(c) PROVE FALSE
    BY <1>1, <2>1 DEF Create
  <2>2. ASSUME NEW from \in All, NEW to \in All, from # to, Switch(from, to) PROVE FALSE
    BY <1>1, <2>2 DEF Switch, ControlSlot
  <2>3. ASSUME NEW c \in Cos, Return(c) PROVE FALSE
    BY <1>1, <2>3 DEF Return
  <2>4. ASSUME NEW g \in Gprs, Compute(g) PROVE FALSE
    BY <1>1, <2>4 DEF Compute
  <2>5. CASE UNCHANGED vars
    BY <1>1, <2>5 DEF vars
  <2>6. ASSUME NEW f \in Controls, SetControl(f) PROVE running = t /\ running' = t
    BY <1>1, <2>6 DEF SetControl
  <2> QED BY <1>1, <2>1, <2>2, <2>3, <2>4, <2>5, <2>6, SwitchSides DEF Next
<1>2. RegsSound /\ [Next]_vars =>
        [\A t \in created : ControlOf(t)' # ControlOf(t)
                              => running = t /\ running' = t]_vars
  BY <1>1
<1> QED BY <1>2, SwitchInit, SwitchTypes, PTL DEF Spec, ControlKept

(* On both processors the callee-saved registers of a coroutine are changed
   by nobody but that coroutine.                                           *)
THEOREM CalleeSavedAlwaysKept == Spec => CalleeSavedKept
<1>1. ASSUME RegsSound, [Next]_vars, NEW t \in created, GprOf(t)' # GprOf(t)
      PROVE  running = t /\ running' = t
  <2> USE DEF RegsSound, GprOf
  <2>1. ASSUME NEW c \in Cos, Create(c) PROVE FALSE
    BY <1>1, <2>1 DEF Create
  <2>2. ASSUME NEW from \in All, NEW to \in All, from # to, Switch(from, to) PROVE FALSE
    BY <1>1, <2>2 DEF Switch, GprSlot
  <2>3. ASSUME NEW c \in Cos, Return(c) PROVE FALSE
    BY <1>1, <2>3 DEF Return
  <2>4. ASSUME NEW f \in Controls, SetControl(f) PROVE FALSE
    BY <1>1, <2>4 DEF SetControl
  <2>5. CASE UNCHANGED vars
    BY <1>1, <2>5 DEF vars
  <2>6. ASSUME NEW g \in Gprs, Compute(g) PROVE running = t /\ running' = t
    BY <1>1, <2>6 DEF Compute
  <2> QED BY <1>1, <2>1, <2>2, <2>3, <2>4, <2>5, <2>6, SwitchSides DEF Next
<1>2. RegsSound /\ [Next]_vars =>
        [\A t \in created : GprOf(t)' # GprOf(t)
                              => running = t /\ running' = t]_vars
  BY <1>1
<1> QED BY <1>2, SwitchInit, SwitchTypes, PTL DEF Spec, CalleeSavedKept
=============================================================================
