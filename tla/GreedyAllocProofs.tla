-------------------------- MODULE GreedyAllocProofs -------------------------
(***************************************************************************)
(* The greedy allocator keeps overlapping intervals in different physical  *)
(* registers, leaves one without a register only for a reason, and         *)
(* implements IntervalColoring, for any pools and any set of intervals.    *)
(***************************************************************************)
EXTENDS GreedyAlloc, TLAPS

-----------------------------------------------------------------------------
(* The inductive invariant *)

\* Only served intervals hold a register.
ServedHold == \A v \in todo : phys_reg[v] = NoReg

\* A holder starts at 0 or later and has released its register by reg_track.
TrackBounds ==
    \A u \in Reg : phys_reg[u] # NoReg =>
        /\ interval[u].start_time >= 0
        /\ interval[u].end_time <= reg_track[phys_reg[u]]

\* A register that is not free from the beginning has a holder that says why.
TrackHeld ==
    \A p \in PhysReg :
        \/ reg_track[p] = 0
        \/ \E u \in Reg : phys_reg[u] = p /\ interval[u].end_time = reg_track[p]

\* Shorter intervals are served first.
Sorted == \A u \in Reg \ todo, w \in todo : Length(u) <= Length(w)

\* Calls keep their registers out of the caller-saved pool.
PoolsRespected ==
    \A u \in Reg : interval[u].is_call => phys_reg[u] \in CalleeSaved \cup {NoReg}

IInv == /\ TypeOK /\ ServedHold /\ TrackBounds /\ TrackHeld /\ Sorted
        /\ PoolsRespected /\ NoSharing /\ FailureJustified /\ CallerSavedPreferred

-----------------------------------------------------------------------------

LEMMA IntervalFacts ==
    ASSUME interval \in IntervalMaps, NEW v \in Reg
    PROVE  /\ interval[v] \in Interval
           /\ interval[v].start_time \in Int /\ interval[v].end_time \in Int
           /\ interval[v].is_call \in BOOLEAN
           /\ interval[v].start_time < 0 \/ interval[v].start_time < interval[v].end_time
           /\ Length(v) \in Int
  <1>1. interval[v] \in Interval
    BY IntervalAssumption
  <1>2. interval[v].start_time < 0 \/ interval[v].start_time < interval[v].end_time
    BY IntervalAssumption
  <1>3. interval[v].start_time \in Int /\ interval[v].end_time \in Int
    BY <1>1 DEF Interval
  <1>4. Length(v) \in Int
    BY <1>3 DEF Length
  <1> QED BY <1>1, <1>2, <1>3, <1>4 DEF Interval

\* The register TRY_ALLOCATE takes is free, and of the pool v is entitled to.
LEMMA TakesFacts ==
    ASSUME TypeOK, NEW v \in Reg, NEW p \in PhysReg, Takes(p, v)
    PROVE  /\ reg_track[p] <= interval[v].start_time
           /\ p # NoReg
           /\ interval[v].is_call => p \in CalleeSaved
           /\ p \in CalleeSaved /\ ~interval[v].is_call =>
                \A q \in CallerSaved : ~(reg_track[q] <= interval[v].start_time)
  BY PoolAssumption DEF Takes, IsFirstFit, Free, PhysReg, NoReg, TypeOK

\* A register that is not free has a holder that ends behind v's start.
LEMMA HolderExists ==
    ASSUME TypeOK, TrackHeld, NEW v \in Reg, interval[v].start_time >= 0,
           NEW p \in PhysReg, ~(reg_track[p] <= interval[v].start_time)
    PROVE  \E u \in Reg : phys_reg[u] = p /\ interval[u].end_time > interval[v].start_time
  <1>1. reg_track[p] \in Int /\ interval[v].start_time \in Int
    BY IntervalFacts DEF TypeOK
  <1>2. reg_track[p] # 0
    BY <1>1
  <1>3. PICK u \in Reg : phys_reg[u] = p /\ interval[u].end_time = reg_track[p]
    BY <1>2 DEF TrackHeld
  <1> QED BY <1>1, <1>3, IntervalFacts DEF TypeOK

LEMMA InitIInv == Init => IInv
  <1> SUFFICES ASSUME Init PROVE IInv
    OBVIOUS
  <1>1. \A v \in Reg : phys_reg[v] = NoReg
    BY DEF Init
  <1>2. TypeOK
    BY DEF Init, TypeOK
  <1>3. NoReg \notin PhysReg
    BY PoolAssumption DEF NoReg
  <1> QED BY <1>1, <1>2, <1>3 DEF Init, IInv, ServedHold, TrackBounds, TrackHeld,
          Sorted, PoolsRespected, NoSharing, FailureJustified, CallerSavedPreferred,
          PhysReg

\* Taking v out of todo keeps the order of service.
LEMMA SortedKept ==
    ASSUME IInv, NEW v \in Reg, First(v), todo' = todo \ {v}, interval' = interval
    PROVE  Sorted' /\ (\A u \in Reg \ todo' : Length(u) <= Length(v))
  <1>1. \A u \in Reg : Length(u)' = Length(u) /\ Length(u) \in Int
    BY IntervalFacts DEF Length, IInv, TypeOK
  <1>2. \A u \in Reg \ todo' : Length(u) <= Length(v)
    BY <1>1 DEF IInv, Sorted, First
  <1> QED BY <1>1, <1>2 DEF IInv, Sorted, First, TypeOK

LEMMA SkipUnusedIInv ==
    ASSUME IInv, NEW v \in Reg, SkipUnused(v)
    PROVE  IInv'
  <1> USE DEF SkipUnused
  <1>1. TypeOK' /\ ServedHold' /\ TrackBounds' /\ TrackHeld' /\ PoolsRespected'
          /\ NoSharing' /\ CallerSavedPreferred'
    BY DEF IInv, TypeOK, ServedHold, TrackBounds, TrackHeld, PoolsRespected,
           NoSharing, CallerSavedPreferred, Coloring!Overlap
  <1>2. Sorted'
    BY SortedKept
  <1>3. FailureJustified'
    <2>1. interval[v].start_time \in Int
      BY IntervalFacts DEF IInv, TypeOK
    <2>2. \A u : Length(u)' = Length(u) /\ Eligible(u)' = Eligible(u)
      BY DEF Length, Eligible
    <2> QED BY <2>1, <2>2 DEF IInv, FailureJustified
  <1> QED BY <1>1, <1>2, <1>3 DEF IInv

LEMMA ExhaustedIInv ==
    ASSUME IInv, NEW v \in Reg, Exhausted(v)
    PROVE  IInv'
  <1> USE DEF Exhausted
  <1>1. TypeOK' /\ ServedHold' /\ TrackBounds' /\ TrackHeld' /\ PoolsRespected'
          /\ NoSharing' /\ CallerSavedPreferred'
    BY DEF IInv, TypeOK, ServedHold, TrackBounds, TrackHeld, PoolsRespected,
           NoSharing, CallerSavedPreferred, Coloring!Overlap
  <1>2. Sorted' /\ \A u \in Reg \ todo' : Length(u) <= Length(v)
    BY SortedKept
  <1>3. FailureJustified'
    <2>1. ASSUME NEW p \in Eligible(v)
          PROVE  \E u \in Reg : /\ phys_reg[u] = p
                                /\ interval[u].end_time > interval[v].start_time
                                /\ Length(u) <= Length(v)
      <3>1. p \in PhysReg /\ ~(reg_track[p] <= interval[v].start_time)
        BY DEF Eligible, Free, PhysReg
      <3>2. PICK u \in Reg : phys_reg[u] = p /\ interval[u].end_time > interval[v].start_time
        BY <3>1, HolderExists DEF IInv
      <3>3. u \notin todo
        BY <3>1, <3>2, PoolAssumption DEF IInv, ServedHold, NoReg
      <3> QED BY <1>2, <3>2, <3>3
    <2>2. \A u : Length(u)' = Length(u) /\ Eligible(u)' = Eligible(u)
      BY DEF Length, Eligible
    <2> QED BY <2>1, <2>2 DEF IInv, FailureJustified
  <1> QED BY <1>1, <1>2, <1>3 DEF IInv

LEMMA AllocateIInv ==
    ASSUME IInv, NEW v \in Reg, Allocate(v)
    PROVE  IInv'
  <1>1. PICK p \in PhysReg :
            /\ Takes(p, v)
            /\ phys_reg' = [phys_reg EXCEPT ![v] = p]
            /\ reg_track' = [reg_track EXCEPT ![p] = FreeFrom(v)]
    BY DEF Allocate
  <1>2. /\ First(v) /\ v \in todo /\ todo' = todo \ {v} /\ interval' = interval
        /\ interval[v].start_time >= 0
    BY DEF Allocate, First
  <1>3. /\ reg_track[p] <= interval[v].start_time /\ p # NoReg
        /\ reg_track[p] \in Int /\ interval[v].start_time \in Int
        /\ interval[v].end_time \in Int /\ interval[v].start_time < interval[v].end_time
        /\ phys_reg[v] = NoReg
    BY <1>2, TakesFacts, <1>1, IntervalFacts DEF IInv, TypeOK, ServedHold
  <1>4. /\ phys_reg'[v] = p
        /\ \A u \in Reg \ {v} : phys_reg'[u] = phys_reg[u]
        /\ reg_track'[p] = interval[v].end_time
        /\ \A q \in PhysReg \ {p} : reg_track'[q] = reg_track[q]
        /\ reg_track[p] < reg_track'[p]
    BY <1>1, <1>3 DEF IInv, TypeOK, FreeFrom
  <1>5. \A u : Length(u)' = Length(u) /\ Eligible(u)' = Eligible(u)
    BY <1>2 DEF Length, Eligible
  <1>6. \A u \in Reg : /\ interval[u].start_time \in Int /\ interval[u].end_time \in Int
                       /\ phys_reg[u] = p => u # v /\ interval[u].end_time <= reg_track[p]
    BY <1>3, IntervalFacts DEF IInv, TypeOK, TrackBounds
  <1>7. TypeOK'
    <2>1. phys_reg' \in [Reg -> PhysReg \cup {NoReg}]
      BY <1>1 DEF IInv, TypeOK
    <2> DEFINE Times == {0} \cup {interval[u].end_time : u \in Reg \ todo}
               Later == {0} \cup {interval[u].end_time : u \in Reg \ todo'}
    <2>2. Times \subseteq Later /\ interval[v].end_time \in Later
      BY <1>2
    <2>3. reg_track \in [PhysReg -> Times]
      BY DEF IInv, TypeOK
    <2> HIDE DEF Times, Later
    <2>4. reg_track' \in [PhysReg -> Later]
      BY <1>1, <2>2, <2>3 DEF FreeFrom
    <2> QED BY <1>2, <2>1, <2>4 DEF IInv, TypeOK, Later
  <1>8. ServedHold'
    BY <1>2, <1>4 DEF IInv, ServedHold, TypeOK
  <1>9. TrackBounds'
    <2> SUFFICES ASSUME NEW u \in Reg, phys_reg'[u] # NoReg
                 PROVE  /\ interval[u].start_time >= 0
                        /\ interval[u].end_time <= reg_track'[phys_reg'[u]]
      BY <1>2 DEF TrackBounds
    <2>1. CASE u = v
      BY <1>2, <1>3, <1>4, <2>1
    <2>2. CASE u # v /\ phys_reg[u] = p
      BY <1>3, <1>4, <1>6, <2>2 DEF IInv, TrackBounds
    <2>3. CASE u # v /\ phys_reg[u] # p
      BY <1>4, <2>3 DEF IInv, TrackBounds, TypeOK
    <2> QED BY <2>1, <2>2, <2>3
  <1>10. TrackHeld'
    <2> SUFFICES ASSUME NEW q \in PhysReg
                 PROVE  \/ reg_track'[q] = 0
                        \/ \E u \in Reg : phys_reg'[u] = q /\ interval[u].end_time = reg_track'[q]
      BY <1>2 DEF TrackHeld
    <2>1. CASE q = p
      BY <1>4, <2>1
    <2>2. CASE q # p
      <3>1. NoReg # q
        BY PoolAssumption DEF NoReg
      <3> QED BY <1>3, <1>4, <2>2, <3>1 DEF IInv, TrackHeld
    <2> QED BY <2>1, <2>2
  <1>11. Sorted'
    BY <1>2, SortedKept
  <1>12. PoolsRespected'
    BY <1>1, <1>2, <1>4, TakesFacts DEF IInv, PoolsRespected
  <1>13. NoSharing'
    <2>1. ASSUME NEW u \in Reg, u # v, phys_reg[u] = p
          PROVE  /\ ~Coloring!Overlap(interval[u], interval[v])
                 /\ ~Coloring!Overlap(interval[v], interval[u])
      BY <1>3, <1>6, <2>1 DEF Coloring!Overlap
    <2> QED BY <1>2, <1>4, <2>1 DEF IInv, NoSharing
  <1>14. FailureJustified'
    <2> SUFFICES ASSUME NEW w \in Reg, w \notin todo', phys_reg'[w] = NoReg,
                        interval[w].start_time >= 0, NEW q \in Eligible(w)
                 PROVE  \E u \in Reg : /\ phys_reg'[u] = q
                                       /\ interval[u].end_time > interval[w].start_time
                                       /\ Length(u) <= Length(w)
      BY <1>2, <1>5 DEF FailureJustified
    <2>1. w # v /\ w \notin todo /\ phys_reg[w] = NoReg
      BY <1>2, <1>3, <1>4
    <2>2. PICK u \in Reg : /\ phys_reg[u] = q
                           /\ interval[u].end_time > interval[w].start_time
                           /\ Length(u) <= Length(w)
      BY <2>1 DEF IInv, FailureJustified
    <2>3. q \in PhysReg /\ q # NoReg
      BY PoolAssumption DEF Eligible, PhysReg, NoReg
    <2> QED BY <1>3, <1>4, <2>2, <2>3
  <1>15. CallerSavedPreferred'
    <2> SUFFICES ASSUME NEW w \in Reg, phys_reg'[w] \in CalleeSaved,
                        ~interval[w].is_call, NEW q \in CallerSaved
                 PROVE  \E u \in Reg : /\ phys_reg'[u] = q
                                       /\ ~interval[u].is_call
                                       /\ interval[u].end_time > interval[w].start_time
      BY <1>2, <1>12 DEF CallerSavedPreferred, PoolsRespected
    <2>0. q \in PhysReg /\ q # NoReg /\ q \notin CalleeSaved
      BY PoolAssumption DEF PhysReg, NoReg
    <2>1. CASE w = v
      <3>1. ~(reg_track[q] <= interval[v].start_time)
        BY <1>1, <1>4, <2>1, TakesFacts DEF IInv
      <3>2. PICK u \in Reg : phys_reg[u] = q /\ interval[u].end_time > interval[v].start_time
        BY <1>2, <2>0, <3>1, HolderExists DEF IInv
      <3>3. ~interval[u].is_call
        BY <2>0, <3>2 DEF IInv, PoolsRespected
      <3> QED BY <1>3, <1>4, <2>0, <2>1, <3>2, <3>3
    <2>2. CASE w # v
      <3>1. PICK u \in Reg : /\ phys_reg[u] = q
                             /\ ~interval[u].is_call
                             /\ interval[u].end_time > interval[w].start_time
        BY <1>4, <2>2 DEF IInv, CallerSavedPreferred
      <3> QED BY <1>3, <1>4, <2>0, <3>1
    <2> QED BY <2>1, <2>2
  <1> QED BY <1>7, <1>8, <1>9, <1>10, <1>11, <1>12, <1>13, <1>14, <1>15 DEF IInv

LEMMA NextIInv == IInv /\ [Next]_vars => IInv'
  <1> SUFFICES ASSUME IInv, [Next]_vars PROVE IInv'
    OBVIOUS
  <1>1. CASE Next
    BY <1>1, SkipUnusedIInv, AllocateIInv, ExhaustedIInv DEF Next
  <1>2. CASE UNCHANGED vars
    BY <1>2 DEF vars, IInv, TypeOK, ServedHold, TrackBounds, TrackHeld, Sorted, Length,
           PoolsRespected, NoSharing, FailureJustified, Eligible, CallerSavedPreferred,
           Coloring!Overlap
  <1> QED BY <1>1, <1>2

LEMMA SpecIInv == Spec => []IInv
  BY InitIInv, NextIInv, PTL DEF Spec

-----------------------------------------------------------------------------
(* The theorems *)

\* phys_reg holds registers of the pools or -1, and PhysRegTrack holds 0 or the
\* end of an interval that greedy_allocate has already served.
THEOREM GreedyTypes == Spec => []TypeOK
  <1>1. IInv => TypeOK
    BY DEF IInv
  <1> QED BY <1>1, SpecIInv, PTL

\* Two intervals greedy_allocate gives one register never overlap, in whatever
\* order qsort puts intervals of equal weight.
THEOREM OverlapsApart == Spec => []NoSharing
  <1>1. IInv => NoSharing
    BY DEF IInv
  <1> QED BY <1>1, SpecIInv, PTL

\* greedy_allocate leaves phys_reg at -1 only for an interval whose every
\* register is held by an interval that is no longer and still needs it.
THEOREM FailuresJustified == Spec => []FailureJustified
  <1>1. IInv => FailureJustified
    BY DEF IInv
  <1> QED BY <1>1, SpecIInv, PTL

\* The pools are respected and tried in the order x0..x15, x19..x28.
THEOREM PoolOrder == Spec => []CallerSavedPreferred
  <1>1. IInv => CallerSavedPreferred
    BY DEF IInv
  <1> QED BY <1>1, SpecIInv, PTL

\* Every step of the greedy allocator is a step of IntervalColoring: sorting
\* by length and one end time per register are an implementation of coloring.
THEOREM GreedyImplementsColoring == Spec => ImplementsColoring
  <1>1. Init => Coloring!Init
    BY DEF Init, Coloring!Init, NoReg, Coloring!NoReg
  <1>2. IInv /\ [Next]_vars => [Coloring!Next]_<<interval, phys_reg, todo>>
    <2> SUFFICES ASSUME IInv, [Next]_vars
                 PROVE  [Coloring!Next]_<<interval, phys_reg, todo>>
      OBVIOUS
    <2>1. ASSUME NEW v \in Reg, SkipUnused(v) \/ Exhausted(v) PROVE Coloring!Leave(v)
      BY <2>1 DEF SkipUnused, Exhausted, First, Coloring!Leave
    <2>2. ASSUME NEW v \in Reg, Allocate(v) PROVE Coloring!Assign(v)
      <3>1. PICK p \in PhysReg :
                Takes(p, v) /\ phys_reg' = [phys_reg EXCEPT ![v] = p]
        BY <2>2 DEF Allocate
      <3>2. reg_track[p] <= interval[v].start_time /\ p # NoReg
        BY <3>1, TakesFacts DEF IInv
      <3>3. ASSUME NEW u \in Reg, phys_reg[u] = p
            PROVE  ~Coloring!Overlap(interval[u], interval[v])
        <4>1. interval[u].end_time <= reg_track[p]
          BY <3>2, <3>3 DEF IInv, TrackBounds
        <4>2. /\ interval[u].end_time \in Int /\ interval[v].start_time \in Int
              /\ reg_track[p] \in Int
          BY IntervalFacts DEF IInv, TypeOK
        <4> QED BY <3>2, <4>1, <4>2 DEF Coloring!Overlap
      <3> QED BY <2>2, <3>1, <3>3 DEF Allocate, First, Coloring!Assign
    <2>3. CASE UNCHANGED vars
      BY <2>3 DEF vars
    <2> QED BY <2>1, <2>2, <2>3 DEF Next, Coloring!Next
  <1> QED BY <1>1, <1>2, SpecIInv, PTL DEF Spec, ImplementsColoring, Coloring!Spec

=============================================================================
