------------------------- MODULE SessionManagerProofs -------------------------
(***************************************************************************)
(* Proofs about SessionManager, for any number of managers, sessions and     *)
(* calls.  The data a call holds is treated like the data Redis holds: what  *)
(* is claimed of a stored session is claimed of every copy that may yet be   *)
(* written over it.                                                          *)
(***************************************************************************)
EXTENDS SessionManager, FiniteSetTheorems, TLAPS

Optional(S) == S \cup {"none"}

EntryType == [present : BOOLEAN, data : Data, key : Optional(Managers) \X (0 .. MaxRestarts),
              deadline : Nat]
Pcs == {"idle", "creating", "reading", "read", "updating", "resetting", "expiring",
        "deleting", "done"}
JobPcs == {"idle", "sweeping", "expired", "invalid"}
CallType == [op : Optional(Ops), sid : Optional(SessionIds), at : Optional(Managers),
             correct : BOOLEAN]
JobType == [pc : JobPcs, todo : SUBSET SessionIds, at : Nat, target : Optional(SessionIds)]

Types ==
    /\ now \in StartTime .. LastTime
    /\ redis \in [SessionIds -> EntryType]
    /\ \A s \in SessionIds : Present(s) => redis[s].key \in Managers \X (0 .. MaxRestarts)
    /\ epoch \in [Managers -> 0 .. MaxRestarts]
    /\ pc \in [Calls -> Pcs]
    /\ call \in [Calls -> CallType]
    /\ copy \in [Calls -> Data]
    /\ asOf \in [Calls -> Nat]
    /\ job \in [Managers -> JobType]
    /\ faults \in 0 .. MaxFaults
    /\ tried \in SUBSET Calls

\* What a session's data may claim.
Sound(s, d) ==
    /\ d.attempts <= Cardinality(UpdatesOn(s))
    /\ d.verified => \E c \in UpdatesOn(s) : call[c].correct

\* The call may write its copy to Redis.
Holding(c) == pc[c] \in {"creating", "read", "updating", "resetting"}

StoredSound == \A s \in SessionIds : Present(s) => Sound(s, redis[s].data)
HeldSound == \A c \in Calls : Holding(c) => Sound(Target(c), copy[c])

\* Every version of a session has the same deadline.
SameDeadline ==
    /\ \A c \in Calls :
          (Holding(c) /\ Present(Target(c)))
              => copy[c].expiresAt = redis[Target(c)].data.expiresAt
    /\ \A c, d \in Calls :
          (Holding(c) /\ Holding(d) /\ Target(c) = Target(d))
              => copy[c].expiresAt = copy[d].expiresAt

\* A call that started is about a session that was drawn, by some manager.
Origins ==
    /\ \A s \in SessionIds : Present(s) => s \in Drawn
    /\ \A c \in Calls : pc[c] = "idle" => Target(c) = "none" /\ call[c].op = "none"
    /\ \A c \in Calls :
          pc[c] # "idle" => Target(c) \in SessionIds \cap Drawn /\ Home(c) \in Managers
    /\ \A c \in tried : pc[c] \in {"updating", "done"}

IndInv == Types /\ StoredSound /\ HeldSound /\ SameDeadline /\ Origins

-----------------------------------------------------------------------------
\* More updates leave what was said of a session's data true.
LEMMA SoundGrows ==
    ASSUME NEW s, NEW d \in Data, Sound(s, d),
           tried \subseteq tried', tried' \in SUBSET Calls,
           \A c \in tried : call'[c] = call[c]
    PROVE  Sound(s, d)'
<1>1. UpdatesOn(s) \subseteq UpdatesOn(s)'
  BY DEF UpdatesOn, Target
<1>2. IsFiniteSet(UpdatesOn(s)')
  <2>1. UpdatesOn(s)' \subseteq Calls
    BY DEF UpdatesOn
  <2> QED
    BY <2>1, FS_Subset, SessionAssumption DEF SessionAssumption
<1>3. /\ IsFiniteSet(UpdatesOn(s))
      /\ Cardinality(UpdatesOn(s)) <= Cardinality(UpdatesOn(s)')
  BY <1>1, <1>2, FS_Subset
<1>4. Cardinality(UpdatesOn(s)) \in Nat /\ Cardinality(UpdatesOn(s)') \in Nat
  BY <1>2, <1>3, FS_CardinalityType
<1>5. d.attempts <= Cardinality(UpdatesOn(s)')
  BY <1>3, <1>4 DEF Sound, Data
<1>6. d.verified => \E c \in UpdatesOn(s)' : call'[c].correct
  BY <1>1 DEF Sound, UpdatesOn
<1> QED
  BY <1>5, <1>6 DEF Sound

\* Data without attempts claims nothing.
LEMMA FreshSound ==
    ASSUME NEW s, NEW d \in Data, d.attempts = 0, tried \in SUBSET Calls,
           d.verified => \E c \in UpdatesOn(s) : call[c].correct
    PROVE  Sound(s, d)
<1>1. IsFiniteSet(UpdatesOn(s))
  <2>1. UpdatesOn(s) \subseteq Calls
    BY DEF UpdatesOn
  <2> QED
    BY <2>1, FS_Subset, SessionAssumption DEF SessionAssumption
<1>2. Cardinality(UpdatesOn(s)) \in Nat
  BY <1>1, FS_CardinalityType
<1> QED
  BY <1>2 DEF Sound

LEMMA TimeTypes ==
    StartTime \in Nat /\ LastTime \in Nat /\ DefaultTTL * Second \in Nat
BY SessionAssumption DEF SessionAssumption, StartTime, LastTime

LEMMA InitInv == Init => IndInv
<1> SUFFICES ASSUME Init PROVE IndInv
  OBVIOUS
<1>1. NoData \in Data
  BY DEF NoData, Data, Never
<1>2. Types
  <2>1. NoEntry \in EntryType
    <3>1. <<"none", 0>> \in Optional(Managers) \X (0 .. MaxRestarts)
      BY SessionAssumption DEF SessionAssumption, Optional
    <3> QED
      BY <1>1, <3>1 DEF NoEntry, EntryType
  <2>2. Idle \in JobType
    BY DEF Idle, JobType, JobPcs, Optional
  <2>3. [op |-> "none", sid |-> "none", at |-> "none", correct |-> FALSE] \in CallType
    BY DEF CallType, Optional
  <2>4. now \in StartTime .. LastTime
    BY SessionAssumption DEF SessionAssumption, StartTime, LastTime, Init
  <2>5. faults \in 0 .. MaxFaults /\ epoch \in [Managers -> 0 .. MaxRestarts]
    BY SessionAssumption DEF SessionAssumption, Init
  <2>6. \A s \in SessionIds : ~Present(s)
    BY DEF Init, Present, NoEntry
  <2> QED
    BY <1>1, <2>1, <2>2, <2>3, <2>4, <2>5, <2>6 DEF Init, Types, Pcs
<1>3. StoredSound /\ HeldSound /\ SameDeadline
  BY DEF Init, StoredSound, HeldSound, SameDeadline, Present, NoEntry, Holding
<1>4. Origins
  BY DEF Init, Origins, Present, NoEntry, Target
<1> QED
  BY <1>2, <1>3, <1>4 DEF IndInv

-----------------------------------------------------------------------------
\* Steps that write nothing new: keys disappear, calls end.
Fewer ==
    \A s \in SessionIds : Present(s)' => redis'[s] = redis[s]

\* A call stays where it is, ends, or goes on to delete an expired session.
Onward ==
    \A c \in Calls :
        \/ pc'[c] = pc[c] /\ (Holding(c) => copy'[c] = copy[c])
        \/ pc[c] # "idle" /\ pc'[c] = "done"
        \/ pc[c] = "read" /\ pc'[c] = "expiring"

LEMMA DropStep ==
    ASSUME IndInv, Types', Fewer, Onward, UNCHANGED <<call, tried>>
    PROVE  IndInv'
<1>1. \A s \in SessionIds : Present(s)' => Present(s) /\ redis'[s] = redis[s]
  BY DEF Fewer, Present
<1>2. \A c \in Calls : Holding(c)' => Holding(c) /\ copy'[c] = copy[c]
  BY DEF Onward, Holding
<1>3. \A s, d : Sound(s, d)' <=> Sound(s, d)
  BY DEF Sound, UpdatesOn, Target
<1>4. \A c \in Calls : Target(c)' = Target(c)
  BY DEF Target
<1>5. StoredSound'
  BY <1>1, <1>3 DEF IndInv, StoredSound
<1>6. HeldSound'
  BY <1>2, <1>3, <1>4 DEF IndInv, HeldSound
<1>7. SameDeadline'
  <2> SUFFICES ASSUME NEW c \in Calls, Holding(c)'
               PROVE  /\ Present(Target(c))' =>
                            copy'[c].expiresAt = redis'[Target(c)].data.expiresAt
                      /\ \A d \in Calls : (Holding(d)' /\ Target(c) = Target(d)) =>
                            copy'[c].expiresAt = copy'[d].expiresAt
    BY <1>4 DEF SameDeadline
  <2>1. Target(c) \in SessionIds
    BY <1>2 DEF IndInv, Origins, Holding
  <2> QED
    BY <1>1, <1>2, <1>4, <2>1 DEF IndInv, SameDeadline
<1>8. Origins'
  <2>1. Drawn' = Drawn
    BY DEF Drawn, Target
  <2>2. \A c \in Calls : pc'[c] = "idle" <=> pc[c] = "idle"
    BY DEF Onward
  <2>3. \A c \in tried : pc'[c] \in {"updating", "done"}
    BY DEF IndInv, Origins, Onward, Types
  <2> QED
    BY <1>1, <1>4, <2>1, <2>2, <2>3 DEF IndInv, Origins, Home
<1> QED
  BY <1>5, <1>6, <1>7, <1>8 DEF IndInv

-----------------------------------------------------------------------------
\* A call writes its copy to Redis and returns.
LEMMA StoreStep ==
    ASSUME IndInv, NEW c \in Calls, NEW out, NEW deadline \in Nat, NEW r,
           pc[c] \in {"creating", "updating", "resetting"},
           Command(out),
           Store(Target(c), Entry(c, deadline), out),
           Finish(c, r),
           UNCHANGED <<now, epoch, call, job, tried>>
    PROVE  IndInv'
<1> DEFINE t == Target(c)
           e == Entry(c, deadline)
<1>1. t \in SessionIds /\ t \in Drawn /\ Home(c) \in Managers
  BY DEF IndInv, Origins
<1>2. /\ e \in EntryType /\ e.present /\ e.data = copy[c]
      /\ e.key \in Managers \X (0 .. MaxRestarts)
  <2>1. KeyOf(Home(c)) \in Managers \X (0 .. MaxRestarts)
    BY <1>1 DEF KeyOf, IndInv, Types
  <2>2. KeyOf(Home(c)) \in Optional(Managers) \X (0 .. MaxRestarts)
    BY <2>1 DEF Optional
  <2>3. copy[c] \in Data
    BY DEF IndInv, Types
  <2> QED
    BY <2>1, <2>2, <2>3 DEF Entry, EntryType
<1>3. /\ redis' \in [SessionIds -> EntryType]
      /\ \A s \in SessionIds : redis'[s] = redis[s] \/ (s = t /\ redis'[s] = e)
  <2>1. redis \in [SessionIds -> EntryType]
    BY DEF IndInv, Types
  <2>2. redis' = redis \/ redis' = [redis EXCEPT ![t] = e]
    BY DEF Store
  <2> HIDE DEF t, e
  <2> QED
    BY <1>1, <1>2, <2>1, <2>2
<1>4. \A d \in Calls : Holding(d)' => d # c /\ Holding(d) /\ copy'[d] = copy[d]
  BY DEF Finish, Holding, IndInv, Types
<1>5. /\ pc' \in [Calls -> Pcs] /\ copy' \in [Calls -> Data] /\ asOf' \in [Calls -> Nat]
      /\ \A d \in Calls : pc'[d] = IF d = c THEN "done" ELSE pc[d]
  <2>1. NoData \in Data
    BY DEF NoData, Data, Never
  <2> QED
    BY <2>1 DEF Finish, IndInv, Types, Pcs
<1>6. Types'
  <2>1. faults' \in 0 .. MaxFaults
    BY SessionAssumption DEF SessionAssumption, Command, IndInv, Types
  <2>2. \A s \in SessionIds : Present(s)' => redis'[s].key \in Managers \X (0 .. MaxRestarts)
    BY <1>2, <1>3 DEF Present, IndInv, Types
  <2> QED
    BY <1>3, <1>5, <2>1, <2>2 DEF IndInv, Types
<1>7. \A s, d : Sound(s, d)' <=> Sound(s, d)
  BY DEF Sound, UpdatesOn, Target
<1>8. \A d \in Calls : Target(d)' = Target(d)
  BY DEF Target
<1>9. Holding(c)
  BY DEF Holding
<1>10. StoredSound'
  <2>1. Sound(t, copy[c])
    BY <1>9 DEF IndInv, HeldSound
  <2> QED
    BY <1>2, <1>3, <1>7, <2>1 DEF IndInv, StoredSound, Present
<1>11. HeldSound'
  BY <1>4, <1>7, <1>8 DEF IndInv, HeldSound
<1>12. SameDeadline'
  <2>1. ASSUME NEW d \in Calls, Holding(d)', Present(Target(d))'
        PROVE  copy'[d].expiresAt = redis'[Target(d)].data.expiresAt
    <3>1. Holding(d) /\ copy'[d] = copy[d]
      BY <1>4, <2>1
    <3>2. Target(d) \in SessionIds
      BY <3>1 DEF IndInv, Origins, Holding
    <3>3. CASE redis'[Target(d)] = redis[Target(d)]
      BY <1>8, <2>1, <3>1, <3>3 DEF IndInv, SameDeadline, Present
    <3>4. CASE Target(d) = t /\ redis'[Target(d)] = e
      BY <1>2, <1>9, <3>1, <3>4 DEF IndInv, SameDeadline
    <3> QED
      BY <1>3, <3>2, <3>3, <3>4
  <2> QED
    BY <1>4, <1>8, <2>1 DEF IndInv, SameDeadline
<1>13. Origins'
  <2>1. Drawn' = Drawn
    BY DEF Drawn, Target
  <2>2. \A s \in SessionIds : Present(s)' => s \in Drawn
    BY <1>1, <1>3 DEF Present, IndInv, Origins
  <2>3. \A d \in Calls : pc'[d] = "idle" <=> pc[d] = "idle"
    BY <1>5
  <2>4. \A d \in tried : pc'[d] \in {"updating", "done"}
    BY <1>5 DEF IndInv, Origins, Types
  <2> QED
    BY <1>8, <2>1, <2>2, <2>3, <2>4 DEF IndInv, Origins, Home
<1> QED
  BY <1>6, <1>10, <1>11, <1>12, <1>13 DEF IndInv

LEMMA TTLType ==
    ASSUME IndInv, NEW c \in Calls
    PROVE  now + RemainingTTL(c) * Second \in Nat
<1>1. copy[c].expiresAt \in Nat /\ asOf[c] \in Nat /\ now \in Nat
  BY TimeTypes DEF IndInv, Types, Data
<1>2. (copy[c].expiresAt - asOf[c]) \div Second \in Int
  BY <1>1, SessionAssumption DEF SessionAssumption
<1>3. RemainingTTL(c) \in Nat
  BY <1>2 DEF RemainingTTL, AtLeastOne
<1>4. RemainingTTL(c) * Second \in Nat
  BY <1>3, SessionAssumption DEF SessionAssumption
<1> QED
  BY <1>1, <1>4

LEMMA CreateStoreStep ==
    ASSUME IndInv, NEW c \in Calls, NEW out, CreateStore(c, out)
    PROVE  IndInv'
<1>1. now + DefaultTTL * Second \in Nat
  BY TimeTypes DEF IndInv, Types
<1> QED
  BY <1>1, StoreStep DEF CreateStore, history

LEMMA UpdateStoreStep ==
    ASSUME IndInv, NEW c \in Calls, NEW out, UpdateStore(c, out)
    PROVE  IndInv'
BY TTLType, StoreStep DEF UpdateStore, history

LEMMA ResetStoreStep ==
    ASSUME IndInv, NEW c \in Calls, NEW out, ResetStore(c, out)
    PROVE  IndInv'
<1>1. Forever \in Nat
  BY DEF Forever
<1> QED
  BY <1>1, StoreStep DEF ResetStore, history

-----------------------------------------------------------------------------
\* A call takes a new copy: it reads one, or changes the one it holds.
LEMMA CopyStep ==
    ASSUME IndInv, NEW c \in Calls, NEW d \in Data, NEW p \in {"read", "updating", "resetting"},
           pc[c] \in {"reading", "read"},
           pc' = [pc EXCEPT ![c] = p], copy' = [copy EXCEPT ![c] = d],
           asOf' \in [Calls -> Nat],
           tried' = tried \/ (tried' = tried \cup {c} /\ p = "updating"),
           Sound(Target(c), d)',
           \/ pc[c] = "read" /\ d.expiresAt = copy[c].expiresAt
           \/ Present(Target(c)) /\ d.expiresAt = redis[Target(c)].data.expiresAt,
           faults' \in 0 .. MaxFaults,
           UNCHANGED <<now, redis, epoch, call, job>>
    PROVE  IndInv'
<1> DEFINE t == Target(c)
<1>1. t \in SessionIds /\ t \in Drawn
  BY DEF IndInv, Origins
<1>2. /\ \A b \in Calls : pc'[b] = IF b = c THEN p ELSE pc[b]
      /\ \A b \in Calls : copy'[b] = IF b = c THEN d ELSE copy[b]
      /\ pc' \in [Calls -> Pcs] /\ copy' \in [Calls -> Data]
  BY DEF IndInv, Types, Pcs
<1>3. Types'
  BY <1>2 DEF IndInv, Types, Present
<1>4. \A b \in Calls : Holding(b)' => b = c \/ (Holding(b) /\ copy'[b] = copy[b])
  BY <1>2 DEF Holding
<1>5. \A s : \A x \in Data : Sound(s, x) => Sound(s, x)'
  <2>1. tried \subseteq tried' /\ tried' \in SUBSET Calls
    BY DEF IndInv, Types
  <2> QED
    BY <2>1, SoundGrows
<1>6. \A b \in Calls : Target(b)' = Target(b)
  BY DEF Target
<1>7. \A s \in SessionIds : Present(s)' <=> Present(s)
  BY DEF Present
<1>8. StoredSound'
  <2>1. \A s \in SessionIds : redis[s].data \in Data
    BY DEF IndInv, Types, EntryType
  <2> QED
    BY <1>5, <1>7, <2>1 DEF IndInv, StoredSound
<1>9. HeldSound'
  <2>1. \A b \in Calls : copy[b] \in Data
    BY DEF IndInv, Types
  <2> QED
    BY <1>2, <1>4, <1>5, <1>6, <2>1 DEF IndInv, HeldSound
<1>10. SameDeadline'
  <2>1. Present(t) => d.expiresAt = redis[t].data.expiresAt
    BY DEF IndInv, SameDeadline, Holding
  <2>2. \A b \in Calls : (b # c /\ Holding(b)' /\ Target(b) = t)
           => copy'[b].expiresAt = d.expiresAt
    BY <1>4 DEF IndInv, SameDeadline, Holding
  <2>3. ASSUME NEW b \in Calls, Holding(b)', Present(Target(b))'
        PROVE  copy'[b].expiresAt = redis'[Target(b)].data.expiresAt
    <3>1. CASE b = c
      BY <1>2, <2>1, <2>3, <3>1 DEF Present, Target
    <3>2. CASE b # c
      BY <1>4, <2>3, <3>2 DEF IndInv, SameDeadline, Present, Target
    <3> QED
      BY <3>1, <3>2
  <2>4. ASSUME NEW a \in Calls, NEW b \in Calls, Holding(a)', Holding(b)', Target(a) = Target(b)
        PROVE  copy'[a].expiresAt = copy'[b].expiresAt
    <3>1. CASE a # c /\ b # c
      BY <1>4, <2>4, <3>1 DEF IndInv, SameDeadline
    <3>2. CASE a = c \/ b = c
      BY <1>2, <2>2, <2>4, <3>2
    <3> QED
      BY <3>1, <3>2
  <2> QED
    BY <1>6, <2>3, <2>4 DEF SameDeadline
<1>11. Origins'
  <2>1. Drawn' = Drawn
    BY DEF Drawn, Target
  <2>2. \A b \in Calls : pc'[b] = "idle" <=> pc[b] = "idle"
    BY <1>2
  <2>3. \A b \in tried' : pc'[b] \in {"updating", "done"}
    BY <1>2 DEF IndInv, Origins, Types
  <2> QED
    BY <1>6, <1>7, <2>1, <2>2, <2>3 DEF IndInv, Origins, Home
<1> QED
  BY <1>3, <1>8, <1>9, <1>10, <1>11 DEF IndInv

LEMMA UpdateCountsStep ==
    ASSUME IndInv, NEW c \in Calls, UpdateCounts(c)
    PROVE  IndInv'
<1>1. copy[c] \in Data /\ now \in Nat /\ call[c].correct \in BOOLEAN /\ tried \in SUBSET Calls
  BY TimeTypes DEF IndInv, Types, CallType
<1>2. PICK x \in Data, ok \in BOOLEAN, time \in Nat :
         x = copy[c] /\ ok = call[c].correct /\ time = now
  BY <1>1
<1>3. PICK d : d = Counted(c)
  OBVIOUS
<1>4. /\ d \in Data /\ d.expiresAt = x.expiresAt /\ d.attempts = x.attempts + 1
      /\ d.verified => x.verified \/ ok
  <2>1. d = [copy[c] EXCEPT !.lastAttemptAt = now, !.attempts = @ + 1,
                            !.verified = @ \/ call[c].correct]
    BY <1>3, Zenon DEF Counted
  <2>2. copy[c] = x /\ now = time /\ call[c].correct = ok
    BY <1>2
  <2>3. d = [x EXCEPT !.lastAttemptAt = time, !.attempts = @ + 1, !.verified = @ \/ ok]
    BY <2>1, <2>2, Zenon
  <2>4. d.expiresAt = x.expiresAt /\ x.expiresAt \in Nat
    BY <2>3 DEF Data
  <2>5. d.attempts = x.attempts + 1 /\ x.attempts \in Nat
    BY <2>3 DEF Data
  <2>6. d.verified = (x.verified \/ ok)
    BY <2>3, Zenon DEF Data
  <2>7. d.lastAttemptAt = time
    BY <2>3 DEF Data
  <2>8. d = [attempts |-> d.attempts, lastAttemptAt |-> d.lastAttemptAt,
             verified |-> d.verified, expiresAt |-> d.expiresAt]
    BY <2>3 DEF Data
  <2>9. d.verified \in BOOLEAN
    BY <2>6
  <2> QED
    BY <2>4, <2>5, <2>6, <2>7, <2>8, <2>9 DEF Data
<1>5. asOf' \in [Calls -> Nat]
  BY <1>1 DEF UpdateCounts, IndInv, Types
<1>6. c \notin tried
  BY DEF UpdateCounts, IndInv, Origins
<1>7. Sound(Target(c), x)
  BY <1>2 DEF UpdateCounts, IndInv, HeldSound, Holding
<1>8. Sound(Target(c), d)'
  <2>1. UpdatesOn(Target(c))' = UpdatesOn(Target(c)) \cup {c} /\ c \notin UpdatesOn(Target(c))
    BY <1>6 DEF UpdateCounts, UpdatesOn, Target
  <2>2. IsFiniteSet(UpdatesOn(Target(c)))
    <3>1. UpdatesOn(Target(c)) \subseteq Calls
      BY <1>1 DEF UpdatesOn
    <3> QED
      BY <3>1, FS_Subset, SessionAssumption DEF SessionAssumption
  <2>3. Cardinality(UpdatesOn(Target(c))') = Cardinality(UpdatesOn(Target(c))) + 1
        /\ Cardinality(UpdatesOn(Target(c))) \in Nat
    BY <2>1, <2>2, FS_AddElement, FS_CardinalityType
  <2>4. d.attempts <= Cardinality(UpdatesOn(Target(c))')
    <3>1. x.attempts \in Nat
      BY DEF Data
    <3> QED
      BY <1>4, <1>7, <2>3, <3>1 DEF Sound
  <2>5. d.verified => \E b \in UpdatesOn(Target(c))' : call[b].correct
    BY <1>2, <1>4, <1>7, <2>1 DEF Sound
  <2>6. call' = call /\ Target(c)' = Target(c)
    BY DEF UpdateCounts, Target
  <2>7. \A y : Sound(Target(c), y)' <=>
           /\ y.attempts <= Cardinality(UpdatesOn(Target(c))')
           /\ y.verified => \E b \in UpdatesOn(Target(c))' : call[b].correct
    BY <2>6 DEF Sound, UpdatesOn, Target
  <2> QED
    BY <2>4, <2>5, <2>7
<1>9. faults' \in 0 .. MaxFaults
  BY DEF UpdateCounts, IndInv, Types
<1> QED
  BY <1>2, <1>3, <1>4, <1>5, <1>8, <1>9, CopyStep DEF UpdateCounts

LEMMA ReadFoundStep ==
    ASSUME IndInv, NEW c \in Calls, pc[c] = "reading", Present(Target(c)),
           copy' = [copy EXCEPT ![c] = redis[Target(c)].data],
           pc' = [pc EXCEPT ![c] = "read"],
           faults' \in 0 .. MaxFaults,
           UNCHANGED <<now, redis, epoch, call, job, asOf, tried>>
    PROVE  IndInv'
<1>1. Target(c) \in SessionIds
  BY DEF IndInv, Origins
<1>2. PICK d \in Data : d = redis[Target(c)].data
  BY <1>1 DEF IndInv, Types, EntryType
<1>3. Sound(Target(c), d)
  BY <1>1, <1>2 DEF IndInv, StoredSound
<1>4. Sound(Target(c), d)'
  <2>1. \A y : Sound(Target(c), y)' <=> Sound(Target(c), y)
    BY DEF Sound, UpdatesOn, Target
  <2> QED
    BY <1>3, <2>1
<1>5. asOf' \in [Calls -> Nat]
  BY DEF IndInv, Types
<1> QED
  BY <1>2, <1>4, <1>5, CopyStep

LEMMA CheckResetsStep ==
    ASSUME IndInv, NEW c \in Calls, CheckResets(c)
    PROVE  IndInv'
<1>1. copy \in [Calls -> Data]
  BY DEF IndInv, Types
<1>2. PICK d \in Data :
         /\ d = [copy[c] EXCEPT !.attempts = 0, !.lastAttemptAt = Never]
         /\ d.expiresAt = copy[c].expiresAt /\ d.attempts = 0
         /\ d.verified = copy[c].verified
  <2>1. PICK x \in Data : x = copy[c]
    BY <1>1
  <2>2. PICK d : d = [x EXCEPT !.attempts = 0, !.lastAttemptAt = Never]
    OBVIOUS
  <2>3. /\ d \in Data /\ d.expiresAt = x.expiresAt /\ d.attempts = 0
        /\ d.verified = x.verified
    BY <2>2 DEF Data, Never
  <2> QED
    BY <2>1, <2>2, <2>3
<1>3. copy' = [copy EXCEPT ![c] = d]
  BY <1>1, <1>2 DEF CheckResets
<1>4. Sound(Target(c), copy[c])
  BY DEF CheckResets, IndInv, HeldSound, Holding
<1>5. Sound(Target(c), d)
  <2>1. d.verified => \E b \in UpdatesOn(Target(c)) : call[b].correct
    BY <1>2, <1>4 DEF Sound
  <2> QED
    BY <1>2, <2>1, FreshSound DEF IndInv, Types
<1>6. Sound(Target(c), d)'
  <2>1. \A y : Sound(Target(c), y)' <=> Sound(Target(c), y)
    BY DEF CheckResets, Sound, UpdatesOn, Target
  <2> QED
    BY <1>5, <2>1
<1>7. asOf' \in [Calls -> Nat] /\ faults' \in 0 .. MaxFaults
  BY DEF CheckResets, IndInv, Types
<1> QED
  BY <1>2, <1>3, <1>6, <1>7, CopyStep DEF CheckResets

-----------------------------------------------------------------------------
\* A call starts: on a session nobody heard of, or on one that was drawn.
LEMMA BeginStep ==
    ASSUME IndInv, NEW c \in Calls, NEW m \in Managers, NEW s \in SessionIds,
           NEW op \in Ops, NEW ok \in BOOLEAN, NEW d \in Data,
           NEW p \in {"creating", "reading", "deleting"},
           Begin(c, m, op, s, ok),
           pc' = [pc EXCEPT ![c] = p],
           copy' = [copy EXCEPT ![c] = d],
           p = "creating" => /\ op = "create" /\ s \notin Drawn
                             /\ d.attempts = 0 /\ ~d.verified,
           p # "creating" => s \in Drawn
    PROVE  IndInv'
<1>1. /\ \A b \in Calls : pc'[b] = IF b = c THEN p ELSE pc[b]
      /\ \A b \in Calls : copy'[b] = IF b = c THEN d ELSE copy[b]
      /\ pc' \in [Calls -> Pcs] /\ copy' \in [Calls -> Data]
  BY DEF IndInv, Types, Pcs
<1>2. call' \in [Calls -> CallType] /\ Home(c)' = m /\ Target(c)' = s /\ call'[c].op = op
  BY DEF Begin, IndInv, Types, CallType, Optional, Home, Target
<1>3. \A b \in Calls : b # c => call'[b] = call[b]
  BY DEF Begin, IndInv, Types
<1>4. \A b \in Calls : b # c => Target(b)' = Target(b) /\ Home(b)' = Home(b)
  BY <1>3 DEF Target, Home
<1>5. pc[c] = "idle" /\ call[c].op = "none" /\ c \notin tried
  BY DEF Begin, IndInv, Origins
<1>6. /\ Drawn \subseteq Drawn' /\ s \in Drawn'
  <2>1. Drawn \subseteq Drawn'
    BY <1>3, <1>5 DEF Drawn, Target
  <2>2. CASE p = "creating"
    BY <1>2, <2>1, <2>2 DEF Drawn
  <2> QED
    BY <2>1, <2>2
<1>7. Types'
  BY <1>1, <1>2 DEF Begin, IndInv, Types, Present
<1>8. \A t : \A x \in Data : Sound(t, x) => Sound(t, x)'
  <2>1. tried' \in SUBSET Calls /\ tried \subseteq tried'
    BY DEF Begin, IndInv, Types
  <2>2. \A b \in tried : call'[b] = call[b]
    BY <1>3, <1>5 DEF IndInv, Types
  <2> QED
    BY <2>1, <2>2, SoundGrows
<1>9. \A t \in SessionIds : (Present(t)' <=> Present(t)) /\ redis'[t] = redis[t]
  BY DEF Begin, Present
<1>10. \A b \in Calls : Holding(b)' =>
          \/ b # c /\ Holding(b) /\ copy'[b] = copy[b]
          \/ b = c /\ p = "creating"
  BY <1>1 DEF Holding
<1>11. StoredSound'
  <2>1. \A t \in SessionIds : redis[t].data \in Data
    BY DEF IndInv, Types, EntryType
  <2> QED
    BY <1>8, <1>9, <2>1 DEF IndInv, StoredSound
<1>12. HeldSound'
  <2>1. \A b \in Calls : copy[b] \in Data
    BY DEF IndInv, Types
  <2>2. p = "creating" => Sound(s, d)'
    BY <1>8, FreshSound DEF IndInv, Types
  <2> QED
    BY <1>1, <1>2, <1>4, <1>8, <1>10, <2>1, <2>2 DEF IndInv, HeldSound
<1>13. SameDeadline'
  <2>1. p = "creating" => ~Present(s) /\ \A b \in Calls : Holding(b) => Target(b) # s
    BY DEF IndInv, Origins, Holding
  <2>2. ASSUME NEW b \in Calls, Holding(b)', Present(Target(b))'
        PROVE  copy'[b].expiresAt = redis'[Target(b)'].data.expiresAt
    <3>1. CASE b = c
      BY <1>2, <1>9, <1>10, <2>1, <2>2, <3>1
    <3>2. CASE b # c
      <4>1. Target(b) \in SessionIds
        BY <1>10, <2>2, <3>2 DEF IndInv, Origins, Holding
      <4> QED
        BY <1>4, <1>9, <1>10, <2>2, <3>2, <4>1 DEF IndInv, SameDeadline
    <3> QED
      BY <3>1, <3>2
  <2>3. ASSUME NEW a \in Calls, NEW b \in Calls, Holding(a)', Holding(b)',
               Target(a)' = Target(b)'
        PROVE  copy'[a].expiresAt = copy'[b].expiresAt
    <3>1. CASE a # c /\ b # c
      BY <1>4, <1>10, <2>3, <3>1 DEF IndInv, SameDeadline
    <3>2. CASE a = c \/ b = c
      BY <1>2, <1>4, <1>10, <2>1, <2>3, <3>2
    <3> QED
      BY <3>1, <3>2
  <2> QED
    BY <2>2, <2>3 DEF SameDeadline
<1>14. Origins'
  <2>1. \A t \in SessionIds : Present(t)' => t \in Drawn'
    BY <1>6, <1>9 DEF IndInv, Origins
  <2>2. \A b \in Calls : pc'[b] = "idle" => Target(b)' = "none" /\ call'[b].op = "none"
    BY <1>1, <1>3, <1>4 DEF IndInv, Origins
  <2>3. \A b \in Calls :
           pc'[b] # "idle" => Target(b)' \in SessionIds \cap Drawn' /\ Home(b)' \in Managers
    BY <1>1, <1>2, <1>4, <1>6 DEF IndInv, Origins
  <2>4. \A b \in tried' : pc'[b] \in {"updating", "done"}
    BY <1>1, <1>5 DEF Begin, IndInv, Origins, Types
  <2> QED
    BY <2>1, <2>2, <2>3, <2>4 DEF Origins
<1> QED
  BY <1>7, <1>11, <1>12, <1>13, <1>14 DEF IndInv

LEMMA StartStep ==
    ASSUME IndInv, NEW c \in Calls, Start(c)
    PROVE  IndInv'
<1>1. PICK m \in Managers, s \in SessionIds :
         \/ CreateStart(c, m, s)
         \/ \E op \in Ops, ok \in BOOLEAN : ReadStart(c, m, op, s, ok)
         \/ DeleteStart(c, m, s)
  BY DEF Start
<1>2. PICK x \in Data : x = copy[c]
  BY DEF IndInv, Types
<1>3. UNCHANGED copy => copy' = [copy EXCEPT ![c] = x]
  BY <1>2 DEF IndInv, Types
<1>4. Known(s) => s \in Drawn
  BY DEF Known, CallsOn, Drawn
<1>5. CASE CreateStart(c, m, s)
  <2>1. PICK d \in Data : d = FreshData /\ d.attempts = 0 /\ ~d.verified
    <3>1. now + DefaultTTL * Second \in Nat
      BY TimeTypes DEF IndInv, Types
    <3>2. PICK y \in Data : y = NoData
      BY DEF NoData, Data, Never
    <3>3. PICK n \in Nat : n = now + DefaultTTL * Second
      BY <3>1
    <3>4. PICK d : d = [y EXCEPT !.expiresAt = n]
      OBVIOUS
    <3>5. d \in Data /\ d.attempts = y.attempts /\ d.verified = y.verified
      BY <3>4 DEF Data
    <3>6. y.attempts = 0 /\ ~y.verified
      BY <3>2 DEF NoData
    <3>7. d = FreshData
      BY <3>2, <3>3, <3>4 DEF FreshData
    <3> QED
      BY <3>5, <3>6, <3>7
  <2>2. "create" \in Ops
    BY DEF Ops
  <2> QED
    BY <1>5, <2>1, <2>2, BeginStep DEF CreateStart
<1>6. ASSUME NEW op \in Ops, NEW ok \in BOOLEAN, ReadStart(c, m, op, s, ok)
      PROVE  IndInv'
  <2>1. /\ Begin(c, m, op, s, ok) /\ s \in Drawn
        /\ pc' = [pc EXCEPT ![c] = "reading"] /\ copy' = [copy EXCEPT ![c] = x]
    BY <1>3, <1>4, <1>6 DEF ReadStart
  <2> QED
    BY <2>1, BeginStep
<1>7. CASE DeleteStart(c, m, s)
  <2>1. "delete" \in Ops
    BY DEF Ops
  <2> QED
    BY <1>3, <1>4, <1>7, <2>1, BeginStep DEF DeleteStart
<1> QED
  BY <1>1, <1>5, <1>6, <1>7

-----------------------------------------------------------------------------
\* Deleting a key, whichever it is.
LEMMA StoreNothing ==
    ASSUME IndInv, NEW s, NEW out, Store(s, NoEntry, out)
    PROVE  redis' \in [SessionIds -> EntryType] /\ Fewer
<1>1. NoEntry \in EntryType /\ ~NoEntry.present
  <2>1. <<"none", 0>> \in Optional(Managers) \X (0 .. MaxRestarts)
    BY SessionAssumption DEF SessionAssumption, Optional
  <2> QED
    BY <2>1 DEF NoEntry, EntryType, NoData, Data, Never
<1>2. redis \in [SessionIds -> EntryType]
  BY DEF IndInv, Types
<1>3. redis' = redis \/ redis' = [redis EXCEPT ![s] = NoEntry]
  BY DEF Store
<1>4. redis' \in [SessionIds -> EntryType]
  BY <1>1, <1>2, <1>3
<1>5. \A t \in SessionIds : redis'[t] = redis[t] \/ redis'[t] = NoEntry
  BY <1>2, <1>3
<1> QED
  BY <1>1, <1>4, <1>5 DEF Fewer, Present

LEMMA CommandCounts ==
    ASSUME IndInv, NEW out, Command(out)
    PROVE  faults' \in 0 .. MaxFaults
BY SessionAssumption DEF SessionAssumption, Command, IndInv, Types

\* A call returns, and stores nothing.
LEMMA EndStep ==
    ASSUME IndInv, NEW c \in Calls, NEW r, pc[c] # "idle", Finish(c, r),
           redis' \in [SessionIds -> EntryType], Fewer, faults' \in 0 .. MaxFaults,
           UNCHANGED <<now, epoch, call, job, tried>>
    PROVE  IndInv'
<1>1. NoData \in Data
  BY DEF NoData, Data, Never
<1>2. Onward
  BY DEF Finish, Onward, IndInv, Types
<1>3. pc' \in [Calls -> Pcs] /\ copy' \in [Calls -> Data] /\ asOf' \in [Calls -> Nat]
  BY <1>1 DEF Finish, IndInv, Types, Pcs
<1>4. Types'
  BY <1>3 DEF IndInv, Types, Fewer, Present
<1> QED
  BY <1>2, <1>4, DropStep

\* Nothing about keys changes.
LEMMA SameKeys ==
    ASSUME IndInv, UNCHANGED redis
    PROVE  redis' \in [SessionIds -> EntryType] /\ Fewer
BY DEF IndInv, Types, Fewer

LEMMA ContinueStep ==
    ASSUME IndInv, NEW c \in Calls, Continue(c)
    PROVE  IndInv'
<1>1. faults \in 0 .. MaxFaults
  BY DEF IndInv, Types
<1>2. ASSUME NEW out \in Outcomes, CreateStore(c, out)
      PROVE  IndInv'
  BY <1>2, CreateStoreStep
<1>3. ASSUME NEW out \in Outcomes, Read(c, out)
      PROVE  IndInv'
  <2>1. faults' \in 0 .. MaxFaults
    BY <1>3, CommandCounts DEF Read
  <2>2. CASE Present(Target(c)) /\ copy' = [copy EXCEPT ![c] = redis[Target(c)].data]
             /\ pc' = [pc EXCEPT ![c] = "read"] /\ UNCHANGED <<result, asOf>>
    BY <1>3, <2>1, <2>2, ReadFoundStep DEF Read, history
  <2>3. CASE Finish(c, "missing")
    BY <1>3, <2>1, <2>3, SameKeys, EndStep DEF Read, history
  <2> QED
    BY <1>3, <2>2, <2>3 DEF Read
<1>4. ASSUME NEW out \in Outcomes, UpdateStore(c, out)
      PROVE  IndInv'
  BY <1>4, UpdateStoreStep
<1>5. ASSUME NEW out \in Outcomes, ResetStore(c, out)
      PROVE  IndInv'
  BY <1>5, ResetStoreStep
<1>6. ASSUME NEW out \in Outcomes, DeleteKey(c, out)
      PROVE  IndInv'
  <2>1. faults' \in 0 .. MaxFaults
    BY <1>6, CommandCounts DEF DeleteKey
  <2>2. redis' \in [SessionIds -> EntryType] /\ Fewer
    BY <1>6, StoreNothing DEF DeleteKey
  <2> QED
    BY <1>6, <2>1, <2>2, EndStep DEF DeleteKey
<1>7. CASE ReadExpired(c)
  <2>1. Types'
    BY <1>7 DEF ReadExpired, history, IndInv, Types, Pcs, Present
  <2>2. Onward
    BY <1>7 DEF ReadExpired, Onward, IndInv, Types
  <2> QED
    BY <1>7, <2>1, <2>2, SameKeys, DropStep DEF ReadExpired, history
<1>8. CASE ReadReturns(c)
  BY <1>1, <1>8, SameKeys, EndStep DEF ReadReturns, history
<1>9. CASE UpdateCounts(c)
  BY <1>9, UpdateCountsStep
<1>10. CASE CheckReturns(c)
  BY <1>1, <1>10, SameKeys, EndStep DEF CheckReturns, history
<1>11. CASE CheckResets(c)
  BY <1>11, CheckResetsStep
<1> QED
  BY <1>2, <1>3, <1>4, <1>5, <1>6, <1>7, <1>8, <1>9, <1>10, <1>11 DEF Continue

\* A cleanup job touches its own state, and deletes keys.
OnlyDeletes ==
    /\ faults' \in 0 .. MaxFaults /\ job' \in [Managers -> JobType]
    /\ redis' \in [SessionIds -> EntryType] /\ Fewer
    /\ UNCHANGED <<now, epoch, pc, call, copy, asOf, tried>>

LEMMA CleanupStep ==
    ASSUME IndInv, NEW m \in Managers, Cleanup(m)
    PROVE  IndInv'
<1> SUFFICES OnlyDeletes
  <2>1. ASSUME OnlyDeletes PROVE Types'
    BY <2>1 DEF OnlyDeletes, IndInv, Types, Fewer, Present
  <2>2. ASSUME OnlyDeletes PROVE Onward
    BY <2>2 DEF OnlyDeletes, Onward
  <2> QED
    BY <2>1, <2>2, DropStep DEF OnlyDeletes
<1>1. /\ job \in [Managers -> JobType] /\ faults \in 0 .. MaxFaults /\ now \in Nat
      /\ job[m] \in JobType
  BY TimeTypes DEF IndInv, Types
<1>2. Idle \in JobType
  BY DEF Idle, JobType, JobPcs, Optional
<1>3. ASSUME NEW out \in Outcomes, CleanupScan(m, out)
      PROVE  OnlyDeletes
  <2>1. [pc |-> "sweeping", at |-> now, target |-> "none",
         todo |-> {s \in SessionIds : Present(s)}] \in JobType
    BY <1>1 DEF JobType, JobPcs, Optional
  <2>2. job' \in [Managers -> JobType]
    BY <1>1, <1>3, <2>1 DEF CleanupScan
  <2> QED
    BY <1>3, <2>2, CommandCounts, SameKeys DEF CleanupScan, callVars, OnlyDeletes
<1>4. ASSUME NEW out \in Outcomes, NEW s \in SessionIds, CleanupRead(m, s, out)
      PROVE  OnlyDeletes
  <2>1. job' \in [Managers -> JobType]
    BY <1>1, <1>2, <1>4 DEF CleanupRead, JobType, JobPcs, Optional
  <2> QED
    BY <1>4, <2>1, CommandCounts, SameKeys DEF CleanupRead, callVars, OnlyDeletes
<1>5. ASSUME NEW out \in Outcomes, CleanupDelete(m, out)
      PROVE  OnlyDeletes
  <2>1. job' \in [Managers -> JobType]
    BY <1>1, <1>2, <1>5 DEF CleanupDelete, JobType, JobPcs, Optional
  <2> QED
    BY <1>5, <2>1, CommandCounts, StoreNothing DEF CleanupDelete, callVars, OnlyDeletes
<1>6. ASSUME CleanupEnd(m)
      PROVE  OnlyDeletes
  BY <1>1, <1>2, <1>6, SameKeys DEF CleanupEnd, callVars, OnlyDeletes
<1> QED
  BY <1>3, <1>4, <1>5, <1>6 DEF Cleanup

LEMMA RestartStep ==
    ASSUME IndInv, NEW m \in Managers, Restart(m)
    PROVE  IndInv'
<1>1. Idle \in JobType /\ NoData \in Data
  BY DEF Idle, JobType, JobPcs, Optional, NoData, Data, Never
<1>2. epoch' \in [Managers -> 0 .. MaxRestarts]
  BY SessionAssumption DEF SessionAssumption, Restart, IndInv, Types
<1>3. /\ pc' \in [Calls -> Pcs] /\ copy' \in [Calls -> Data] /\ asOf' \in [Calls -> Nat]
      /\ job' \in [Managers -> JobType]
  BY <1>1 DEF Restart, IndInv, Types, Pcs
<1>4. Types'
  BY <1>2, <1>3 DEF Restart, history, IndInv, Types, Present
<1>5. Onward
  BY DEF Restart, Onward, Running, Holding
<1> QED
  BY <1>4, <1>5, SameKeys, DropStep DEF Restart, history

\* Time passes, and keys disappear.
LEMMA TickKeys ==
    ASSUME IndInv, Tick
    PROVE  redis' \in [SessionIds -> EntryType] /\ Fewer
<1>1. NoEntry \in EntryType /\ ~NoEntry.present
  <2>1. <<"none", 0>> \in Optional(Managers) \X (0 .. MaxRestarts)
    BY SessionAssumption DEF SessionAssumption, Optional
  <2> QED
    BY <2>1 DEF NoEntry, EntryType, NoData, Data, Never
<1>2. redis \in [SessionIds -> EntryType]
  BY DEF IndInv, Types
<1>3. \A s \in SessionIds : redis'[s] = redis[s] \/ redis'[s] = NoEntry
  BY DEF Tick
<1>4. redis' = [s \in SessionIds |-> redis'[s]]
  BY DEF Tick
<1>5. redis' \in [SessionIds -> EntryType]
  BY <1>1, <1>2, <1>3, <1>4
<1> QED
  BY <1>1, <1>3, <1>5 DEF Fewer, Present

LEMMA TickStep ==
    ASSUME IndInv, Tick
    PROVE  IndInv'
<1>1. redis' \in [SessionIds -> EntryType] /\ Fewer
  BY TickKeys
<1>2. now' \in StartTime .. LastTime
  BY TimeTypes DEF Tick, IndInv, Types
<1>3. Types'
  BY <1>1, <1>2 DEF Tick, callVars, IndInv, Types, Fewer, Present
<1>4. Onward
  BY DEF Tick, callVars, Onward
<1> QED
  BY <1>1, <1>3, <1>4, DropStep DEF Tick, callVars

LEMMA NextInv == IndInv /\ [Next]_vars => IndInv'
<1> SUFFICES ASSUME IndInv, [Next]_vars PROVE IndInv'
  OBVIOUS
<1>1. ASSUME NEW c \in Calls, Start(c) PROVE IndInv'
  BY <1>1, StartStep
<1>2. ASSUME NEW c \in Calls, Continue(c) PROVE IndInv'
  BY <1>2, ContinueStep
<1>3. ASSUME NEW m \in Managers, Cleanup(m) PROVE IndInv'
  BY <1>3, CleanupStep
<1>4. ASSUME NEW m \in Managers, Restart(m) PROVE IndInv'
  BY <1>4, RestartStep
<1>5. CASE Tick
  BY <1>5, TickStep
<1>6. CASE UNCHANGED vars
  <2>1. Types'
    BY <1>6 DEF vars, IndInv, Types, Present
  <2>2. Onward
    BY <1>6 DEF vars, Onward
  <2> QED
    BY <1>6, <2>1, <2>2, SameKeys, DropStep DEF vars
<1> QED
  BY <1>1, <1>2, <1>3, <1>4, <1>5, <1>6 DEF Next

\* What every behaviour keeps: the shapes, and that no stored or held version of
\* a session claims more attempts or more success than was counted.
THEOREM Invariance == Spec => []IndInv
BY InitInv, NextInv, PTL DEF Spec

\* Every variable keeps its shape, in every deployment of session-manager.ts.
THEOREM SessionTypes == Spec => []TypeOK
<1>1. IndInv => TypeOK
  BY DEF IndInv, Types, TypeOK, EntryType, JobType
<1> QED
  BY <1>1, Invariance, PTL

\* updateSession's read, count and write race with each other, with failed
\* commands, with restarts and with the reset of isMaxAttemptsReached; the stored
\* counter still never exceeds the attempts that were made.
THEOREM CountedAtMost == Spec => []NeverOvercounted
<1>1. IndInv => NeverOvercounted
  BY DEF IndInv, StoredSound, Sound, NeverOvercounted
<1> QED
  BY <1>1, Invariance, PTL

\* A stored session says it is verified only if updateSession was told of a
\* correct answer for it, whoever wrote it last.
THEOREM VerifiedOnSuccess == Spec => []VerifiedJustified
<1>1. IndInv => VerifiedJustified
  BY DEF IndInv, StoredSound, Sound, VerifiedJustified
<1> QED
  BY <1>1, Invariance, PTL

-----------------------------------------------------------------------------
\* What a step may do to the keys: delete some, or write the copy of a call.
Writes ==
    \E c \in Calls : \E deadline, out :
        Holding(c) /\ Store(Target(c), Entry(c, deadline), out)

LEMMA KeySteps ==
    ASSUME IndInv, [Next]_vars
    PROVE  Fewer \/ Writes
<1>1. ASSUME NEW c \in Calls, Start(c) PROVE Fewer
  BY <1>1, SameKeys DEF Start, CreateStart, ReadStart, DeleteStart, Begin
<1>2. ASSUME NEW c \in Calls, Continue(c) PROVE Fewer \/ Writes
  <2>1. ASSUME NEW out, CreateStore(c, out) \/ UpdateStore(c, out) \/ ResetStore(c, out)
        PROVE  Writes
    BY <2>1 DEF CreateStore, UpdateStore, ResetStore, Holding, Writes
  <2>2. ASSUME NEW out, DeleteKey(c, out) PROVE Fewer
    BY <2>2, StoreNothing DEF DeleteKey
  <2>3. ASSUME UNCHANGED redis PROVE Fewer
    BY <2>3, SameKeys
  <2> QED
    BY <1>2, <2>1, <2>2, <2>3 DEF Continue, Read, ReadExpired, ReadReturns, UpdateCounts,
                                  CheckReturns, CheckResets
<1>3. ASSUME NEW m \in Managers, Cleanup(m) PROVE Fewer
  <2>1. ASSUME NEW out, CleanupDelete(m, out) PROVE Fewer
    BY <2>1, StoreNothing DEF CleanupDelete
  <2>2. ASSUME UNCHANGED redis PROVE Fewer
    BY <2>2, SameKeys
  <2> QED
    BY <1>3, <2>1, <2>2 DEF Cleanup, CleanupScan, CleanupRead, CleanupEnd
<1>4. ASSUME NEW m \in Managers, Restart(m) PROVE Fewer
  BY <1>4, SameKeys DEF Restart
<1>5. CASE Tick
  BY <1>5, TickKeys
<1>6. CASE UNCHANGED vars
  BY <1>6, SameKeys DEF vars
<1> QED
  BY <1>1, <1>2, <1>3, <1>4, <1>5, <1>6 DEF Next

LEMMA ExpiryStep ==
    ASSUME IndInv, [Next]_vars, NEW s \in SessionIds, Present(s), Present(s)'
    PROVE  redis'[s].data.expiresAt = redis[s].data.expiresAt
<1>1. CASE Fewer
  BY <1>1 DEF Fewer
<1>2. ASSUME NEW c \in Calls, NEW deadline, NEW out, Holding(c),
             Store(Target(c), Entry(c, deadline), out)
      PROVE  redis'[s].data.expiresAt = redis[s].data.expiresAt
  <2>1. redis' = redis \/ redis' = [redis EXCEPT ![Target(c)] = Entry(c, deadline)]
    BY <1>2 DEF Store
  <2>2. Entry(c, deadline).data = copy[c]
    BY DEF Entry
  <2>3. redis \in [SessionIds -> EntryType]
    BY DEF IndInv, Types
  <2>4. Present(Target(c)) /\ s = Target(c)
           => copy[c].expiresAt = redis[s].data.expiresAt
    BY <1>2 DEF IndInv, SameDeadline
  <2> HIDE DEF Entry
  <2> QED
    BY <2>1, <2>2, <2>3, <2>4
<1> QED
  BY <1>1, <1>2, KeySteps DEF Writes

\* While a session's key exists no step moves its deadline: neither updateSession,
\* which re-arms the time to live, nor the reset, which drops it.
THEOREM DeadlineFixed == Spec => ExpiryFixed
<1>1. IndInv /\ [Next]_vars =>
        [\A s \in SessionIds :
            (Present(s) /\ Present(s)')
                => redis'[s].data.expiresAt = redis[s].data.expiresAt]_vars
  BY ExpiryStep
<1> QED
  BY <1>1, Invariance, PTL DEF Spec, ExpiryFixed

-----------------------------------------------------------------------------
(* The cleanup job and the keys it cannot read.                              *)

\* One manager, still in its first run: there is one key.
Alone ==
    /\ \A m, n \in Managers : m = n
    /\ \A m \in Managers : epoch[m] = 0

Deleting(m) == job[m].pc \in {"expired", "invalid"}

\* Every version of the session the job is about to delete had expired when the sweep
\* began.
TargetPast(m) ==
    /\ Present(job[m].target) => job[m].at > redis[job[m].target].data.expiresAt
    /\ \A c \in Calls :
          (Holding(c) /\ Target(c) = job[m].target) => job[m].at > copy[c].expiresAt

SweepInv ==
    /\ \A s \in SessionIds : Present(s) => redis[s].key[2] <= epoch[redis[s].key[1]]
    /\ \A m \in Managers :
          /\ job[m].at <= now
          /\ Deleting(m) => job[m].target \in SessionIds \cap Drawn
    /\ Alone => /\ \A m \in Managers : Deleting(m) => TargetPast(m)
                /\ swept = {}

\* What a step may do to a job: nothing, end or begin a sweep, or find its next target.
JobMoves(m) ==
    \/ job'[m] = job[m]
    \/ ~Deleting(m)' /\ job'[m].at <= now'
    \/ /\ \E s \in SessionIds : Doomed(m, s) /\ job'[m].target = s
       /\ job'[m].at = job[m].at
       /\ UNCHANGED <<redis, pc, call, copy>>
    \/ Deleting(m) /\ job'[m].at = job[m].at /\ job'[m].target = job[m].target

LEMMA JobSteps ==
    ASSUME IndInv, SweepInv, [Next]_vars, NEW m \in Managers
    PROVE  JobMoves(m)
<1>0. /\ job \in [Managers -> JobType] /\ now \in Nat
      /\ job[m].at \in Nat /\ job[m].at <= now
  BY TimeTypes DEF IndInv, SweepInv, Types, JobType
<1>1. ASSUME NEW c \in Calls, Start(c) PROVE JobMoves(m)
  BY <1>1 DEF Start, CreateStart, ReadStart, DeleteStart, Begin, JobMoves
<1>2. ASSUME NEW c \in Calls, Continue(c) PROVE JobMoves(m)
  BY <1>2 DEF Continue, CreateStore, Read, UpdateStore, ResetStore, DeleteKey, ReadExpired,
              ReadReturns, UpdateCounts, CheckReturns, CheckResets, JobMoves
<1>3. ASSUME NEW n \in Managers, Cleanup(n) PROVE JobMoves(m)
  <2>1. CASE n # m
    BY <1>0, <1>3, <2>1
    DEF Cleanup, CleanupScan, CleanupRead, CleanupDelete, CleanupEnd, JobMoves
  <2>2. CASE n = m
    <3>1. ASSUME NEW out, CleanupScan(m, out) PROVE JobMoves(m)
      BY <1>0, <3>1 DEF CleanupScan, JobMoves, Deleting
    <3>2. ASSUME NEW out, NEW s \in SessionIds, CleanupRead(m, s, out) PROVE JobMoves(m)
      <4>1. CASE job' = [job EXCEPT ![m] = Idle]
        BY <1>0, <3>2, <4>1 DEF CleanupRead, JobMoves, Deleting, Idle
      <4>2. CASE job' = [job EXCEPT ![m].todo = @ \ {s}]
        BY <1>0, <3>2, <4>2 DEF CleanupRead, JobMoves, Deleting, JobType
      <4>3. CASE /\ Doomed(m, s)
                 /\ job' = [job EXCEPT ![m].todo = @ \ {s}, ![m].target = s,
                              ![m].pc = IF Readable(m, s) THEN "expired" ELSE "invalid"]
        BY <1>0, <3>2, <4>3 DEF CleanupRead, callVars, JobMoves, JobType
      <4> QED
        BY <3>2, <4>1, <4>2, <4>3 DEF CleanupRead
    <3>3. ASSUME NEW out, CleanupDelete(m, out) PROVE JobMoves(m)
      BY <1>0, <3>3 DEF CleanupDelete, JobMoves, Deleting, Idle, JobType
    <3>4. CASE CleanupEnd(m)
      BY <1>0, <3>4 DEF CleanupEnd, JobMoves, Deleting, Idle
    <3> QED
      BY <1>3, <2>2, <3>1, <3>2, <3>3, <3>4 DEF Cleanup
  <2> QED
    BY <2>1, <2>2
<1>4. ASSUME NEW n \in Managers, Restart(n) PROVE JobMoves(m)
  BY <1>0, <1>4 DEF Restart, JobMoves, Deleting, Idle
<1>5. CASE Tick \/ UNCHANGED vars
  BY <1>5 DEF Tick, vars, JobMoves
<1> QED
  BY <1>1, <1>2, <1>3, <1>4, <1>5 DEF Next

\* Where the copy of a call comes from: it had it, drew the session, or read it.
CopyMoves(c) ==
    Holding(c)' =>
        \/ Holding(c) /\ Target(c)' = Target(c) /\ copy'[c].expiresAt = copy[c].expiresAt
        \/ Target(c)' \notin Drawn
        \/ /\ Target(c)' = Target(c) /\ Target(c) \in SessionIds /\ Present(Target(c))
           /\ copy'[c].expiresAt = redis[Target(c)].data.expiresAt

LEMMA CopySteps ==
    ASSUME IndInv, [Next]_vars, NEW c \in Calls
    PROVE  CopyMoves(c)
<1>0. /\ pc \in [Calls -> Pcs] /\ call \in [Calls -> CallType] /\ copy \in [Calls -> Data]
      /\ pc[c] # "idle" => Target(c) \in SessionIds
  BY DEF IndInv, Types, Origins
<1>1. ASSUME NEW d \in Calls, Start(d) PROVE CopyMoves(c)
  <2>1. CASE d # c
    BY <1>0, <1>1, <2>1
    DEF Start, CreateStart, ReadStart, DeleteStart, Begin, CopyMoves, Holding, Target
  <2>2. CASE d = c
    <3>1. ASSUME NEW m \in Managers, NEW s \in SessionIds, CreateStart(c, m, s)
          PROVE  CopyMoves(c)
      BY <1>0, <3>1 DEF CreateStart, Begin, CopyMoves, Target
    <3>2. ASSUME NEW m \in Managers, NEW s \in SessionIds, NEW op, NEW ok,
                 ReadStart(c, m, op, s, ok) \/ DeleteStart(c, m, s)
          PROVE  CopyMoves(c)
      BY <1>0, <3>2 DEF ReadStart, DeleteStart, CopyMoves, Holding
    <3> QED
      BY <1>1, <2>2, <3>1, <3>2 DEF Start
  <2> QED
    BY <2>1, <2>2
<1>2. ASSUME NEW d \in Calls, Continue(d) PROVE CopyMoves(c)
  <2>1. UNCHANGED call
    BY <1>2 DEF Continue, CreateStore, Read, UpdateStore, ResetStore, DeleteKey,
                ReadExpired, ReadReturns, UpdateCounts, CheckReturns, CheckResets
  <2>2. ASSUME NEW r, Finish(d, r) PROVE CopyMoves(c)
    BY <1>0, <2>1, <2>2 DEF Finish, CopyMoves, Holding, Target
  <2>3. ASSUME NEW out, Read(d, out), ~\E r : Finish(d, r) PROVE CopyMoves(c)
    <3>1. /\ pc[d] = "reading" /\ Present(Target(d))
          /\ copy' = [copy EXCEPT ![d] = redis[Target(d)].data]
          /\ pc' = [pc EXCEPT ![d] = "read"]
      BY <2>3 DEF Read
    <3> QED
      BY <1>0, <2>1, <3>1 DEF CopyMoves, Holding, Target
  <2>4. CASE ReadExpired(d)
    BY <1>0, <2>1, <2>4 DEF ReadExpired, CopyMoves, Holding, Target
  <2>5. CASE UpdateCounts(d)
    BY <1>0, <2>1, <2>5 DEF UpdateCounts, Counted, CopyMoves, Holding, Target, Data
  <2>6. CASE CheckResets(d)
    BY <1>0, <2>1, <2>6 DEF CheckResets, CopyMoves, Holding, Target, Data
  <2> QED
    BY <1>2, <2>2, <2>3, <2>4, <2>5, <2>6
    DEF Continue, CreateStore, UpdateStore, ResetStore, DeleteKey, ReadReturns, CheckReturns
<1>3. ASSUME NEW m \in Managers, Cleanup(m) PROVE CopyMoves(c)
  BY <1>3 DEF Cleanup, CleanupScan, CleanupRead, CleanupDelete, CleanupEnd, callVars,
              CopyMoves, Holding, Target
<1>4. ASSUME NEW m \in Managers, Restart(m) PROVE CopyMoves(c)
  BY <1>0, <1>4 DEF Restart, Running, CopyMoves, Holding, Target, Home
<1>5. CASE Tick \/ UNCHANGED vars
  BY <1>5 DEF Tick, vars, callVars, CopyMoves, Holding, Target
<1> QED
  BY <1>1, <1>2, <1>3, <1>4, <1>5 DEF Next

\* Time and keys only advance, and a session once drawn stays drawn.
LEMMA Advances ==
    ASSUME IndInv, [Next]_vars
    PROVE  /\ now' >= now /\ Drawn \subseteq Drawn'
           /\ \A m \in Managers : epoch'[m] >= epoch[m]
<1>0. /\ epoch \in [Managers -> 0 .. MaxRestarts] /\ now \in Nat
      /\ call \in [Calls -> CallType]
      /\ \A c \in Calls : pc[c] = "idle" => call[c].op = "none"
  BY TimeTypes DEF IndInv, Types, Origins
<1>1. ASSUME NEW c \in Calls, Start(c)
      PROVE  now' = now /\ epoch' = epoch /\ Drawn \subseteq Drawn'
  <2>1. now' = now /\ epoch' = epoch
    BY <1>1 DEF Start, CreateStart, ReadStart, DeleteStart, Begin
  <2>2. \A d \in Calls : call[d].op = "create" => call'[d] = call[d]
    BY <1>0, <1>1 DEF Start, CreateStart, ReadStart, DeleteStart, Begin
  <2> QED
    BY <2>1, <2>2 DEF Drawn, Target
<1>2. ASSUME NEW c \in Calls, Continue(c) PROVE UNCHANGED <<now, epoch, call>>
  BY <1>2 DEF Continue, CreateStore, Read, UpdateStore, ResetStore, DeleteKey, ReadExpired,
              ReadReturns, UpdateCounts, CheckReturns, CheckResets
<1>3. ASSUME NEW m \in Managers, Cleanup(m) PROVE UNCHANGED <<now, epoch, call>>
  BY <1>3 DEF Cleanup, CleanupScan, CleanupRead, CleanupDelete, CleanupEnd, callVars
<1>4. ASSUME NEW m \in Managers, Restart(m)
      PROVE  UNCHANGED <<now, call>> /\ \A n \in Managers : epoch'[n] >= epoch[n]
  BY <1>0, <1>4 DEF Restart
<1>5. CASE Tick
  BY <1>0, <1>5 DEF Tick, callVars, Drawn, Target
<1>6. CASE UNCHANGED vars
  BY <1>0, <1>6 DEF vars, Drawn, Target
<1>7. ASSUME UNCHANGED call PROVE Drawn' = Drawn
  BY <1>7 DEF Drawn, Target
<1>8. (\A m \in Managers : epoch[m] \in Nat) /\ now >= now
  BY <1>0
<1>9. (\E c \in Calls : Start(c)) => now' = now /\ epoch' = epoch /\ Drawn \subseteq Drawn'
  BY <1>1
<1>10. ((\E c \in Calls : Continue(c)) \/ (\E m \in Managers : Cleanup(m)))
          => UNCHANGED <<now, epoch, call>>
  BY <1>2, <1>3
<1> QED
  BY <1>4, <1>5, <1>6, <1>7, <1>8, <1>9, <1>10 DEF Next

\* A lone manager can read every key.
LEMMA AllReadable ==
    ASSUME IndInv, SweepInv, Alone, NEW m \in Managers, NEW s \in SessionIds, Present(s)
    PROVE  Readable(m, s)
<1>1. redis[s].key \in Managers \X (0 .. MaxRestarts)
  BY DEF IndInv, Types
<1>2. redis[s].key[1] = m /\ epoch[m] = 0 /\ redis[s].key[2] <= 0
  BY <1>1 DEF Alone, SweepInv
<1> QED
  BY <1>1, <1>2 DEF Readable, KeyOf

\* What was past when a sweep began stays past, whatever is written meanwhile.
LEMMA PastStays ==
    ASSUME IndInv, SweepInv, [Next]_vars, NEW m \in Managers, Deleting(m), TargetPast(m),
           job'[m].at = job[m].at, job'[m].target = job[m].target
    PROVE  TargetPast(m)'
<1> DEFINE s == job[m].target
<1>1. s \in SessionIds /\ s \in Drawn
  BY DEF SweepInv
<1>2. Present(s)' => job[m].at > redis'[s].data.expiresAt
  <2>1. CASE Fewer
    BY <1>1, <2>1 DEF Fewer, Present, TargetPast
  <2>2. ASSUME NEW c \in Calls, NEW deadline, NEW out, Holding(c),
               Store(Target(c), Entry(c, deadline), out)
        PROVE  Present(s)' => job[m].at > redis'[s].data.expiresAt
    <3>1. redis' = redis \/ redis' = [redis EXCEPT ![Target(c)] = Entry(c, deadline)]
      BY <2>2 DEF Store
    <3>2. Entry(c, deadline).data = copy[c]
      BY DEF Entry
    <3>3. redis \in [SessionIds -> EntryType]
      BY DEF IndInv, Types
    <3> HIDE DEF Entry
    <3> QED
      BY <1>1, <2>2, <3>1, <3>2, <3>3 DEF TargetPast, Present
  <2> QED
    BY <2>1, <2>2, KeySteps DEF Writes
<1>3. ASSUME NEW c \in Calls, Holding(c)', Target(c)' = s
      PROVE  job[m].at > copy'[c].expiresAt
  BY <1>1, <1>3, CopySteps DEF CopyMoves, TargetPast
<1> QED
  BY <1>2, <1>3 DEF TargetPast, Present

\* A lone manager's next target is past.
LEMMA DoomedPast ==
    ASSUME IndInv, SweepInv, Alone, NEW m \in Managers, NEW s \in SessionIds, Doomed(m, s),
           job'[m].target = s, job'[m].at = job[m].at, UNCHANGED <<redis, pc, call, copy>>
    PROVE  TargetPast(m)'
<1>1. Present(s) /\ job[m].at > redis[s].data.expiresAt
  BY AllReadable DEF Doomed
<1>2. \A c \in Calls : (Holding(c) /\ Target(c) = s) => job[m].at > copy[c].expiresAt
  BY <1>1 DEF IndInv, SameDeadline
<1> QED
  BY <1>1, <1>2 DEF TargetPast, Present, Holding, Target

LEMMA SweepStep == IndInv /\ SweepInv /\ [Next]_vars => SweepInv'
<1> SUFFICES ASSUME IndInv, SweepInv, [Next]_vars PROVE SweepInv'
  OBVIOUS
<1>0. /\ now \in Nat /\ now' \in Nat /\ now' >= now /\ Drawn \subseteq Drawn'
      /\ \A m \in Managers : epoch'[m] >= epoch[m] /\ epoch[m] \in Nat /\ job[m].at \in Nat
      /\ IndInv'
  BY TimeTypes, Advances, NextInv DEF IndInv, Types, JobType
<1>1. \A s \in SessionIds : Present(s)' => redis'[s].key[2] <= epoch'[redis'[s].key[1]]
  <2> SUFFICES ASSUME NEW s \in SessionIds, Present(s)'
               PROVE  redis'[s].key[2] <= epoch'[redis'[s].key[1]]
    OBVIOUS
  <2>0. redis'[s].key \in Managers \X (0 .. MaxRestarts)
    BY <1>0 DEF IndInv, Types
  <2>1. CASE redis'[s] = redis[s]
    <3>0. redis'[s].key[1] \in Managers /\ redis'[s].key[2] \in Nat
      BY <2>0
    <3>1. redis[s].key[2] <= epoch[redis[s].key[1]]
      BY <2>1 DEF SweepInv, Present
    <3> QED
      <4> DEFINE k == redis'[s].key
      <4>1. k[2] <= epoch[k[1]] /\ k[1] \in Managers /\ k[2] \in Nat
        BY <2>1, <3>0, <3>1
      <4>2. epoch'[k[1]] >= epoch[k[1]] /\ epoch[k[1]] \in Nat /\ epoch'[k[1]] \in Nat
        BY <1>0, <4>1 DEF IndInv, Types
      <4> HIDE DEF k
      <4>3. k[2] <= epoch'[k[1]]
        BY <4>1, <4>2
      <4> QED
        BY <4>3 DEF k
  <2>2. ASSUME NEW c \in Calls, NEW deadline, NEW out, Holding(c), redis'[s] # redis[s],
               Store(Target(c), Entry(c, deadline), out)
        PROVE  redis'[s].key[2] <= epoch'[redis'[s].key[1]]
    <3>1. redis' = [redis EXCEPT ![Target(c)] = Entry(c, deadline)]
      BY <2>2 DEF Store
    <3>2. Entry(c, deadline).key = <<Home(c), epoch[Home(c)]>>
      BY DEF Entry, KeyOf
    <3>3. redis \in [SessionIds -> EntryType] /\ Home(c) \in Managers
      BY <2>2 DEF IndInv, Types, Origins, Holding
    <3> HIDE DEF Entry
    <3>4. redis'[s].key = <<Home(c), epoch[Home(c)]>>
      BY <2>2, <3>1, <3>2, <3>3
    <3> QED
      BY <1>0, <3>3, <3>4
  <2> QED
    BY <2>1, <2>2, KeySteps DEF Writes, Fewer
<1>2. ASSUME NEW m \in Managers
      PROVE  job'[m].at <= now' /\ (Deleting(m)' => job'[m].target \in SessionIds \cap Drawn')
  <2>1. job[m].at <= now /\ (Deleting(m) => job[m].target \in SessionIds \cap Drawn)
    BY DEF SweepInv
  <2>2. \A s \in SessionIds : Doomed(m, s) => s \in Drawn
    BY DEF Doomed, IndInv, Origins
  <2>3. job'[m] = job[m] => (Deleting(m)' <=> Deleting(m))
    BY DEF Deleting
  <2> QED
    BY <1>0, <2>1, <2>2, <2>3, JobSteps DEF JobMoves
<1>3. ASSUME Alone', NEW m \in Managers, Deleting(m)' PROVE TargetPast(m)'
  <2>1. Alone
    BY <1>0, <1>3 DEF Alone
  <2>2. CASE Deleting(m) /\ job'[m].at = job[m].at /\ job'[m].target = job[m].target
    BY <2>1, <2>2, PastStays DEF SweepInv
  <2>3. CASE /\ \E s \in SessionIds : Doomed(m, s) /\ job'[m].target = s
             /\ job'[m].at = job[m].at
             /\ UNCHANGED <<redis, pc, call, copy>>
    BY <2>1, <2>3, DoomedPast
  <2> QED
    BY <1>3, <2>2, <2>3, JobSteps DEF JobMoves, Deleting
<1>4. ASSUME Alone' PROVE swept' = {}
  <2>1. Alone /\ swept = {}
    BY <1>0, <1>4 DEF Alone, SweepInv
  <2>2. ASSUME NEW m \in Managers, NEW out, CleanupDelete(m, out) PROVE swept' = {}
    <3>1. Deleting(m) /\ job[m].at <= now /\ job[m].target \in SessionIds
      BY <2>2 DEF CleanupDelete, Deleting, SweepInv
    <3>2. Present(job[m].target) => job[m].at > redis[job[m].target].data.expiresAt
      BY <2>1, <3>1 DEF SweepInv, TargetPast
    <3>3. Present(job[m].target) => redis[job[m].target].data.expiresAt \in Nat
      BY <3>1 DEF IndInv, Types, EntryType, Data
    <3>4. ~(Present(job[m].target) /\ now <= redis[job[m].target].data.expiresAt)
      BY <1>0, <3>1, <3>2, <3>3
    <3>5. \/ swept' = swept
          \/ Present(job[m].target) /\ now <= redis[job[m].target].data.expiresAt
      BY <2>2 DEF CleanupDelete
    <3> QED
      BY <2>1, <3>4, <3>5
  <2>3. (\E m \in Managers, out \in Outcomes : CleanupDelete(m, out)) \/ swept' = swept
    <3>1. ASSUME NEW c \in Calls, Start(c) PROVE swept' = swept
      BY <3>1 DEF Start, CreateStart, ReadStart, DeleteStart, Begin
    <3>2. ASSUME NEW c \in Calls, Continue(c) PROVE swept' = swept
      BY <3>2 DEF Continue, CreateStore, Read, UpdateStore, ResetStore, DeleteKey, history,
                  ReadExpired, ReadReturns, UpdateCounts, CheckReturns, CheckResets
    <3>3. ASSUME NEW m \in Managers, Cleanup(m)
          PROVE  (\E out \in Outcomes : CleanupDelete(m, out)) \/ swept' = swept
      BY <3>3 DEF Cleanup, CleanupScan, CleanupRead, CleanupEnd
    <3>4. CASE (\E m \in Managers : Restart(m)) \/ Tick \/ UNCHANGED vars
      BY <3>4 DEF Restart, Tick, vars, history
    <3> QED
      BY <3>1, <3>2, <3>3, <3>4 DEF Next
  <2> QED
    BY <2>1, <2>2, <2>3
<1> QED
  BY <1>1, <1>2, <1>3, <1>4 DEF SweepInv

\* The cleanup job may take a live session away only where keys differ: with a single
\* SessionManager that was never restarted, whatever rewrites a session during the sweep,
\* it deletes nothing before its expiry.
THEOREM SweepsForeignOnly == Spec => []SweepNeedsForeignKey
<1>1. Init => SweepInv
  BY TimeTypes DEF Init, SweepInv, Present, NoEntry, Idle, Deleting
<1>2. ASSUME IndInv, SweepInv PROVE SweepNeedsForeignKey
  <2> SUFFICES ASSUME swept # {}, Cardinality(Managers) <= 1,
                      \A m \in Managers : ~(epoch[m] > 0)
               PROVE  FALSE
    BY FS_CardinalityType, SessionAssumption DEF SweepNeedsForeignKey, SessionAssumption
  <2>1. ASSUME NEW m \in Managers, NEW n \in Managers, m # n PROVE FALSE
    <3>1. Cardinality({m, n}) = 2
      <4>1. IsFiniteSet({m}) /\ Cardinality({m}) = 1
        BY FS_Singleton
      <4>2. {m, n} = {m} \cup {n} /\ n \notin {m}
        BY <2>1
      <4>3. Cardinality({m} \cup {n}) = Cardinality({m}) + 1
        BY <4>1, <4>2, FS_AddElement
      <4> QED
        BY <4>1, <4>2, <4>3
    <3>2. Cardinality({m, n}) <= Cardinality(Managers) /\ Cardinality(Managers) \in Nat
      BY <2>1, FS_Subset, FS_CardinalityType, SessionAssumption DEF SessionAssumption
    <3> QED
      BY <3>1, <3>2
  <2>2. Alone
    BY <1>2, <2>1 DEF Alone, IndInv, Types
  <2> QED
    BY <1>2, <2>2 DEF SweepInv
<1> QED
  BY <1>1, <1>2, SweepStep, Invariance, PTL DEF Spec

-----------------------------------------------------------------------------
(* Sessions without overlapping calls.                                       *)

\* One call at a time runs on the session.  Once deleted it is gone, and no call is left
\* that may write it.  Unless a command failed, its counter, and the copy that may
\* replace it, agree with the updates that returned.
SerialOf(s) ==
    /\ \A c, d \in CallsOn(s) : (Running(c) /\ Running(d)) => c = d
    /\ s \in ended => ~Present(s) /\ \A c \in CallsOn(s) : ~Holding(c)
    /\ faults = 0 =>
          /\ Present(s) => redis[s].data.attempts = Cardinality(CompletedUpdates(s))
          /\ \A c \in CallsOn(s) :
                /\ pc[c] \in {"creating", "read"} =>
                      copy[c].attempts = Cardinality(CompletedUpdates(s))
                /\ pc[c] = "updating" =>
                      copy[c].attempts = Cardinality(CompletedUpdates(s)) + 1

Results == {"none", "created", "createError", "missing", "found", "updated",
            "updateError", "reached", "notReached", "deleted", "lost"}

\* A call has no result before it ends; until a session is created, no other call is
\* about it.
Returns ==
    /\ result \in [Calls -> Results]
    /\ \A c \in Calls :
          /\ pc[c] # "done" => result[c] = "none"
          /\ pc[c] = "creating" => CallsOn(Target(c)) = {c}
          /\ pc[c] = "creating" <=> call[c].op = "create" /\ pc[c] # "done"
          /\ pc[c] = "updating" => call[c].op = "update"
          /\ pc[c] = "resetting" => Target(c) \in disturbed
    /\ ended \subseteq Drawn

OverlapInv == Returns /\ \A s \in SessionIds \ disturbed : SerialOf(s)

\* A step that leaves a session as it is, or only ends calls on it.
LEMMA SerialKept ==
    ASSUME NEW s \in SessionIds, SerialOf(s), Present(s)' => redis'[s] = redis[s],
           CallsOn(s)' = CallsOn(s), CompletedUpdates(s)' = CompletedUpdates(s),
           faults' = 0 => faults = 0, s \in ended' => s \in ended,
           \A c \in CallsOn(s) :
               \/ pc'[c] = pc[c] /\ copy'[c] = copy[c]
               \/ ~Holding(c)' /\ (Running(c)' => Running(c))
    PROVE  SerialOf(s)'
<1>1. Present(s)' => Present(s)
  BY DEF Present
<1>2. \A c \in CallsOn(s) : (Running(c)' => Running(c)) /\ (Holding(c)' => Holding(c))
  BY DEF Running, Holding
<1>3. \A c, d \in CallsOn(s)' : (Running(c)' /\ Running(d)') => c = d
  BY <1>2 DEF SerialOf
<1>4. s \in ended' => ~Present(s)' /\ \A c \in CallsOn(s)' : ~Holding(c)'
  BY <1>1, <1>2 DEF SerialOf
<1>5. faults' = 0 /\ Present(s)'
        => redis'[s].data.attempts = Cardinality(CompletedUpdates(s)')
  BY <1>1 DEF SerialOf
<1>6. ASSUME faults' = 0, NEW c \in CallsOn(s)'
      PROVE  /\ pc'[c] \in {"creating", "read"} =>
                   copy'[c].attempts = Cardinality(CompletedUpdates(s)')
             /\ pc'[c] = "updating" =>
                   copy'[c].attempts = Cardinality(CompletedUpdates(s)') + 1
  BY <1>6 DEF SerialOf, Holding
<1> QED
  BY <1>3, <1>4, <1>5, <1>6 DEF SerialOf

\* The updates of a session are finitely many.
LEMMA UpdatesFinite ==
    ASSUME NEW s
    PROVE  /\ IsFiniteSet(CompletedUpdates(s))
           /\ Cardinality(CompletedUpdates(s)) \in Nat
<1>1. CompletedUpdates(s) \subseteq Calls
  BY DEF CompletedUpdates, CallsOn
<1> QED
  BY <1>1, FS_Subset, FS_CardinalityType, SessionAssumption DEF SessionAssumption

\* How a call that started may go on.
Moves(c) ==
    \/ pc'[c] = pc[c] /\ result'[c] = result[c]
    \/ pc'[c] = "done"
    \/ /\ pc[c] \in {"reading", "read"} /\ result'[c] = result[c]
       /\ \/ pc'[c] \in {"read", "expiring"}
          \/ pc'[c] = "updating" /\ call[c].op = "update"
          \/ pc'[c] = "resetting" /\ Target(c) \in disturbed'

LEMMA ReturnsKept ==
    ASSUME Returns, result' \in [Calls -> Results], \A c \in Calls : Moves(c),
           UNCHANGED call, disturbed \subseteq disturbed', ended' \subseteq Drawn
    PROVE  Returns'
<1>1. \A c \in Calls : Target(c)' = Target(c)
  BY DEF Target
<1>2. \A t : CallsOn(t)' = CallsOn(t)
  BY DEF CallsOn, Target
<1>3. Drawn' = Drawn
  BY DEF Drawn, Target
<1>4. ASSUME NEW c \in Calls
      PROVE  /\ pc'[c] # "done" => result'[c] = "none"
             /\ pc'[c] = "creating" => CallsOn(Target(c))' = {c}
             /\ pc'[c] = "creating" <=> call'[c].op = "create" /\ pc'[c] # "done"
             /\ pc'[c] = "updating" => call'[c].op = "update"
             /\ pc'[c] = "resetting" => Target(c)' \in disturbed'
  <2>1. pc'[c] # "done" => result'[c] = "none"
    BY DEF Moves, Returns
  <2>2. CallsOn(Target(c))' = CallsOn(Target(c))
    BY <1>1, <1>2
  <2>3. pc'[c] = "creating" => pc[c] = "creating"
    BY DEF Moves
  <2> QED
    BY <1>1, <2>1, <2>2, <2>3 DEF Moves, Returns
<1> QED
  BY <1>3, <1>4 DEF Returns

\* Keys disappear, and calls stay where they are or end without a result of their own.
LEMMA SerialFewer ==
    ASSUME IndInv, OverlapInv, Fewer, UNCHANGED <<call, disturbed, ended>>,
           faults' = 0 => faults = 0, result' \in [Calls -> Results],
           \A c \in Calls :
               \/ /\ pc'[c] = pc[c] /\ result'[c] = result[c]
                  /\ Holding(c) => copy'[c] = copy[c]
               \/ Running(c) /\ pc'[c] = "done" /\ result'[c] # "updated"
               \/ /\ pc[c] = "read" /\ pc'[c] = "expiring" /\ result'[c] = result[c]
    PROVE  OverlapInv'
<1>1. Returns'
  BY ReturnsKept DEF OverlapInv, Moves, Returns
<1>2. ASSUME NEW s \in SessionIds \ disturbed PROVE SerialOf(s)'
  <2>1. CallsOn(s)' = CallsOn(s)
    BY DEF CallsOn, Target
  <2>2. CompletedUpdates(s)' = CompletedUpdates(s)
    BY <2>1 DEF CompletedUpdates, CallsOn, OverlapInv, Returns, Running
  <2>3. \A c \in CallsOn(s) :
               \/ pc'[c] = pc[c] /\ copy'[c] = copy[c]
               \/ ~Holding(c)' /\ (Running(c)' => Running(c))
    BY DEF CallsOn, Holding, Running
  <2> QED
    BY <2>1, <2>2, <2>3, SerialKept DEF Fewer, OverlapInv
<1> QED
  BY <1>1, <1>2 DEF OverlapInv

\* A call starts: on a new session, or on one that no other call runs on, unless the
\* session counts as disturbed.
LEMMA SerialStart ==
    ASSUME IndInv, OverlapInv, NEW c \in Calls, Start(c)
    PROVE  OverlapInv'
<1>0. /\ pc \in [Calls -> Pcs] /\ call \in [Calls -> CallType] /\ copy \in [Calls -> Data]
      /\ \A d \in Calls : /\ pc[d] = "idle" => Target(d) = "none" /\ call[d].op = "none"
                          /\ pc[d] # "idle" => Target(d) \in SessionIds \cap Drawn
      /\ "none" \notin SessionIds
  BY NoneAssumption DEF IndInv, Types, Origins
<1>1. PICK m \in Managers, s \in SessionIds, op \in Ops, ok \in BOOLEAN :
          /\ Begin(c, m, op, s, ok)
          /\ \/ CreateStart(c, m, s) /\ op = "create"
             \/ /\ ReadStart(c, m, op, s, ok) \/ DeleteStart(c, m, s)
                /\ op # "create" /\ Known(s)
  <2>1. ASSUME NEW m \in Managers, NEW s \in SessionIds, CreateStart(c, m, s)
        PROVE  Begin(c, m, "create", s, FALSE)
    BY <2>1 DEF CreateStart
  <2>2. ASSUME NEW m \in Managers, NEW s \in SessionIds, NEW op \in Ops, NEW ok \in BOOLEAN,
               ReadStart(c, m, op, s, ok)
        PROVE  Begin(c, m, op, s, ok) /\ op # "create" /\ Known(s)
    BY <2>2 DEF ReadStart
  <2>3. ASSUME NEW m \in Managers, NEW s \in SessionIds, DeleteStart(c, m, s)
        PROVE  Begin(c, m, "delete", s, FALSE) /\ Known(s)
    BY <2>3 DEF DeleteStart
  <2>4. "create" \in Ops /\ "delete" \in Ops /\ "delete" # "create" /\ FALSE \in BOOLEAN
    BY DEF Ops
  <2>5. PICK m \in Managers, s \in SessionIds :
            \/ CreateStart(c, m, s)
            \/ \E op \in Ops, ok \in BOOLEAN : ReadStart(c, m, op, s, ok)
            \/ DeleteStart(c, m, s)
    BY DEF Start
  <2>6. CASE CreateStart(c, m, s)
    BY <2>1, <2>4, <2>6
  <2>7. CASE \E op \in Ops, ok \in BOOLEAN : ReadStart(c, m, op, s, ok)
    BY <2>2, <2>7
  <2>8. CASE DeleteStart(c, m, s)
    BY <2>3, <2>4, <2>8
  <2> QED
    BY <2>5, <2>6, <2>7, <2>8
<1>2. /\ pc[c] = "idle" /\ UNCHANGED <<redis, result, faults, ended>>
      /\ call' = [call EXCEPT ![c] = [op |-> op, sid |-> s, at |-> m, correct |-> ok]]
      /\ disturbed' = IF \E d \in CallsOn(s) : Running(d) THEN disturbed \cup {s}
                      ELSE disturbed
  BY <1>1 DEF Begin
<1>3. /\ pc' = [pc EXCEPT ![c] = pc'[c]]
      /\ pc'[c] = IF op = "create" THEN "creating" ELSE pc'[c]
      /\ pc'[c] \in {"creating", "reading", "deleting"}
      /\ op # "create" => pc'[c] \in {"reading", "deleting"}
      /\ \A d \in Calls \ {c} : pc'[d] = pc[d] /\ copy'[d] = copy[d]
  BY <1>0, <1>1 DEF CreateStart, ReadStart, DeleteStart
<1>4. /\ Target(c)' = s /\ call'[c].op = op
      /\ \A d \in Calls \ {c} : call'[d] = call[d] /\ Target(d)' = Target(d)
      /\ \A t \in SessionIds : c \notin CallsOn(t)
  BY <1>0, <1>2 DEF Target, CallsOn
<1>5. /\ CallsOn(s)' = CallsOn(s) \cup {c}
      /\ \A t \in SessionIds \ {s} : CallsOn(t)' = CallsOn(t)
  BY <1>4 DEF CallsOn
<1>6. result[c] = "none" /\ Drawn \subseteq Drawn'
  <2>1. result[c] = "none"
    BY <1>2 DEF OverlapInv, Returns
  <2>2. call[c].op # "create"
    BY <1>0, <1>2
  <2> QED
    BY <1>4, <2>1, <2>2 DEF Drawn
<1>7. \A t \in SessionIds : CompletedUpdates(t)' = CompletedUpdates(t)
  BY <1>2, <1>4, <1>5, <1>6 DEF CompletedUpdates
<1>8. op = "create" => CallsOn(s) = {} /\ s \notin ended /\ s \notin Drawn /\ ~Present(s)
  <2>1. ASSUME op = "create" PROVE s \notin Drawn
    BY <1>1, <2>1 DEF CreateStart
  <2> QED
    BY <1>0, <2>1 DEF CallsOn, OverlapInv, Returns, IndInv, Origins
<1>9. \A d \in CallsOn(s) : op # "create" => pc[d] # "creating"
  <2> SUFFICES ASSUME NEW d \in CallsOn(s), op # "create", pc[d] = "creating" PROVE FALSE
    OBVIOUS
  <2>1. CallsOn(s) = {d} /\ result[d] = "none"
    BY DEF OverlapInv, Returns, CallsOn
  <2> QED
    BY <1>1, <2>1 DEF Known
<1>10. Returns'
  <2> SUFFICES ASSUME NEW d \in Calls
               PROVE  /\ pc'[d] # "done" => result'[d] = "none"
                      /\ pc'[d] = "creating" => CallsOn(Target(d))' = {d}
                      /\ pc'[d] = "creating" <=> call'[d].op = "create" /\ pc'[d] # "done"
                      /\ pc'[d] = "updating" => call'[d].op = "update"
                      /\ pc'[d] = "resetting" => Target(d)' \in disturbed'
    BY <1>2, <1>6 DEF OverlapInv, Returns
  <2>1. CASE d = c
    <3>1. op = "create" => CallsOn(Target(c))' = {c}
      BY <1>4, <1>5, <1>8
    <3> QED
      BY <1>2, <1>3, <1>4, <1>6, <2>1, <3>1
  <2>2. CASE d # c
    <3>1. /\ pc'[d] = pc[d] /\ call'[d] = call[d] /\ result'[d] = result[d]
          /\ Target(d)' = Target(d) /\ disturbed \subseteq disturbed'
      BY <1>2, <1>3, <1>4, <2>2
    <3>2. ASSUME pc[d] = "creating" PROVE CallsOn(Target(d))' = {d}
      <4>1. CallsOn(Target(d)) = {d} /\ Target(d) \in SessionIds /\ d \in CallsOn(Target(d))
        BY <1>0, <3>2 DEF OverlapInv, Returns
      <4>2. Target(d) # s
        BY <1>8, <1>9, <3>2, <4>1
      <4> QED
        BY <1>4, <1>5, <2>2, <4>1, <4>2 DEF CallsOn
    <3> QED
      BY <3>1, <3>2 DEF OverlapInv, Returns
  <2> QED
    BY <2>1, <2>2
<1>11. ASSUME NEW t \in SessionIds \ disturbed' PROVE SerialOf(t)'
  <2>0. t \notin disturbed /\ SerialOf(t)
    BY <1>2, <1>11 DEF OverlapInv
  <2>1. CASE t # s
    <3>1. \A d \in CallsOn(t) : pc'[d] = pc[d] /\ copy'[d] = copy[d]
      BY <1>3, <1>4 DEF CallsOn
    <3> QED
      BY <1>2, <1>5, <1>7, <2>0, <2>1, <3>1, SerialKept DEF Present
  <2>2. CASE t = s
    <3>1. \A d \in CallsOn(s) : ~Running(d)
      BY <1>2, <1>11, <2>2
    <3>2. \A d \in CallsOn(s) : ~Running(d)' /\ ~Holding(d)' /\ d # c
      BY <1>3, <1>4, <3>1 DEF CallsOn, Running, Holding
    <3>3. \A d, e \in CallsOn(s)' : (Running(d)' /\ Running(e)') => d = e
      BY <1>5, <3>2
    <3>4. CASE op # "create"
      <4>1. \A d \in CallsOn(s)' : ~Holding(d)'
        BY <1>3, <1>5, <3>2, <3>4 DEF Holding
      <4> QED
        BY <1>2, <1>7, <2>0, <2>2, <3>3, <4>1 DEF SerialOf, Holding, Present
    <3>5. CASE op = "create"
      <4>1. CompletedUpdates(s)' = {} /\ Cardinality(CompletedUpdates(s)') = 0
        BY <1>7, <1>8, <3>5, FS_EmptySet DEF CompletedUpdates
      <4>2. CallsOn(s)' = {c} /\ pc'[c] = "creating" /\ copy'[c].attempts = 0
        <5>1. copy' = [copy EXCEPT ![c] = FreshData] /\ FreshData.attempts = 0
          BY <1>1, <3>5 DEF CreateStart, FreshData, NoData
        <5> QED
          BY <1>0, <1>3, <1>5, <1>8, <3>5, <5>1
      <4> QED
        BY <1>2, <1>8, <2>2, <3>3, <3>5, <4>1, <4>2 DEF SerialOf, Present
    <3> QED
      BY <3>4, <3>5
  <2> QED
    BY <2>1, <2>2
<1> QED
  BY <1>10, <1>11 DEF OverlapInv

\* Only one call runs on a session that is not disturbed.
LEMMA OneRunning ==
    ASSUME OverlapInv, NEW c \in Calls, Running(c), Target(c) \in SessionIds \ disturbed,
           NEW d \in CallsOn(Target(c)), d # c
    PROVE  ~Running(d)
<1>1. c \in CallsOn(Target(c)) /\ SerialOf(Target(c))
  BY DEF OverlapInv, CallsOn
<1> QED
  BY <1>1 DEF SerialOf

\* A call stores its copy and returns.
LEMMA SerialStore ==
    ASSUME IndInv, OverlapInv, NEW c \in Calls, NEW out \in Outcomes, NEW deadline, NEW r,
           pc[c] \in {"creating", "updating", "resetting"}, Command(out),
           Store(Target(c), Entry(c, deadline), out), Finish(c, r), r \in Results,
           r = "updated" <=> pc[c] = "updating" /\ out = "ok",
           UNCHANGED <<call, disturbed, ended>>
    PROVE  OverlapInv'
<1> DEFINE s == Target(c)
<1>0. /\ pc \in [Calls -> Pcs] /\ copy \in [Calls -> Data] /\ result \in [Calls -> Results]
      /\ redis \in [SessionIds -> EntryType] /\ faults \in Nat
      /\ s \in SessionIds /\ Running(c) /\ Holding(c)
  BY SessionAssumption
  DEF IndInv, Types, Origins, OverlapInv, Returns, Running, Holding, SessionAssumption
<1>1. /\ \A d \in Calls \ {c} :
            pc'[d] = pc[d] /\ copy'[d] = copy[d] /\ result'[d] = result[d]
      /\ pc'[c] = "done" /\ result'[c] = r /\ result' \in [Calls -> Results]
  BY <1>0 DEF Finish
<1>2. /\ \A t : CallsOn(t)' = CallsOn(t)
      /\ \A d \in Calls : Target(d)' = Target(d)
  BY DEF CallsOn, Target
<1>3. \A t \in SessionIds \ {s} : redis'[t] = redis[t]
  BY <1>0 DEF Store
<1>4. faults' = 0 => faults = 0 /\ out = "ok"
  BY <1>0 DEF Command
<1>5. Returns'
  BY <1>1, ReturnsKept DEF OverlapInv, Moves, Returns
<1>6. ASSUME NEW t \in SessionIds \ disturbed PROVE SerialOf(t)'
  <2>0. SerialOf(t)
    BY DEF OverlapInv
  <2>1. CASE t # s
    <3>1. \A d \in CallsOn(t) : pc'[d] = pc[d] /\ copy'[d] = copy[d] /\ result'[d] = result[d]
      BY <1>1, <2>1 DEF CallsOn
    <3>2. CompletedUpdates(t)' = CompletedUpdates(t)
      BY <1>2, <3>1 DEF CompletedUpdates
    <3> QED
      BY <1>2, <1>3, <1>4, <2>0, <2>1, <3>1, <3>2, SerialKept
  <2>2. CASE t = s
    <3>1. c \in CallsOn(t) /\ t \notin ended
      <4>1. c \in CallsOn(t)
        BY <2>2 DEF CallsOn
      <4> QED
        BY <1>0, <2>0, <2>2, <4>1 DEF SerialOf
    <3>2. \A d \in CallsOn(t)' : ~Running(d)' /\ ~Holding(d)'
      <4>1. ASSUME NEW d \in CallsOn(t), d # c PROVE ~Running(d)
        BY <1>0, <2>0, <3>1, <4>1 DEF SerialOf
      <4> QED
        BY <1>1, <1>2, <4>1 DEF Running, Holding, CallsOn
    <3>3. ASSUME faults' = 0
          PROVE  redis'[t].data.attempts = Cardinality(CompletedUpdates(t)')
      <4>1. redis' = [redis EXCEPT ![t] = Entry(c, deadline)] /\ out = "ok" /\ faults = 0
        BY <1>4, <2>2, <3>3 DEF Store, Executed
      <4>2. redis'[t].data = copy[c]
        <5>1. Entry(c, deadline).data = copy[c]
          BY DEF Entry
        <5> HIDE DEF Entry
        <5> QED
          BY <1>0, <4>1, <5>1
      <4>3. CASE pc[c] = "updating"
        <5>1. copy[c].attempts = Cardinality(CompletedUpdates(t)) + 1
          BY <2>0, <2>2, <3>1, <4>1, <4>3 DEF SerialOf
        <5>2. CompletedUpdates(t)' = CompletedUpdates(t) \cup {c}
          BY <1>1, <1>2, <3>1, <4>1, <4>3
          DEF CompletedUpdates, CallsOn, OverlapInv, Returns
        <5>3. c \notin CompletedUpdates(t)
          BY <4>3 DEF CompletedUpdates, OverlapInv, Returns
        <5>4. Cardinality(CompletedUpdates(t)') = Cardinality(CompletedUpdates(t)) + 1
          BY <5>2, <5>3, UpdatesFinite, FS_AddElement
        <5> QED
          BY <4>2, <5>1, <5>4
      <4>4. CASE pc[c] = "creating"
        <5>1. copy[c].attempts = Cardinality(CompletedUpdates(t))
          BY <2>0, <2>2, <3>1, <4>1, <4>4 DEF SerialOf
        <5>2. CompletedUpdates(t)' = CompletedUpdates(t)
          BY <1>1, <1>2, <4>4 DEF CompletedUpdates, CallsOn, OverlapInv, Returns
        <5> QED
          BY <4>2, <5>1, <5>2
      <4>5. pc[c] # "resetting"
        BY <2>2 DEF OverlapInv, Returns
      <4> QED
        BY <4>3, <4>4, <4>5
    <3> QED
      BY <2>2, <3>1, <3>2, <3>3 DEF SerialOf, Holding
  <2> QED
    BY <2>1, <2>2
<1> QED
  BY <1>5, <1>6 DEF OverlapInv

\* A call deletes the session and returns: it was the only one that ran.
LEMMA SerialDelete ==
    ASSUME IndInv, OverlapInv, NEW c \in Calls, NEW out \in Outcomes, DeleteKey(c, out)
    PROVE  OverlapInv'
<1>0. /\ pc \in [Calls -> Pcs] /\ copy \in [Calls -> Data] /\ result \in [Calls -> Results]
      /\ faults \in Nat /\ redis \in [SessionIds -> EntryType]
      /\ Target(c) \in SessionIds \cap Drawn /\ Running(c)
  BY SessionAssumption DEF DeleteKey, IndInv, Types, Origins, OverlapInv, Returns, Running,
                           SessionAssumption
<1>1. /\ \A d \in Calls \ {c} :
            pc'[d] = pc[d] /\ copy'[d] = copy[d] /\ result'[d] = result[d]
      /\ pc'[c] = "done" /\ result'[c] \in {"deleted", "missing"}
      /\ result' \in [Calls -> Results]
  BY <1>0 DEF DeleteKey, Finish, Results
<1>2. UNCHANGED <<call, disturbed>> /\ Fewer /\ (faults' = 0 => faults = 0)
  BY <1>0, StoreNothing DEF DeleteKey, Command
<1>3. /\ \A t : CallsOn(t)' = CallsOn(t)
      /\ \A d \in Calls : Target(d)' = Target(d)
  BY <1>2 DEF CallsOn, Target
<1>4. Returns'
  <2>1. ended' \subseteq Drawn
    BY <1>0 DEF DeleteKey, OverlapInv, Returns
  <2> QED
    BY <1>1, <1>2, <2>1, ReturnsKept DEF OverlapInv, Moves
<1>5. ASSUME NEW t \in SessionIds \ disturbed PROVE SerialOf(t)'
  <2>0. SerialOf(t)
    BY DEF OverlapInv
  <2>1. CompletedUpdates(t)' = CompletedUpdates(t)
    <3>1. result[c] = "none"
      BY <1>0 DEF OverlapInv, Returns, Running
    <3> QED
      BY <1>1, <1>2, <1>3, <3>1 DEF CompletedUpdates, CallsOn
  <2>2. \A d \in CallsOn(t) :
               \/ pc'[d] = pc[d] /\ copy'[d] = copy[d]
               \/ ~Holding(d)' /\ (Running(d)' => Running(d))
    BY <1>1 DEF CallsOn, Holding, Running
  <2>3. CASE t \in ended' => t \in ended
    BY <1>2, <1>3, <2>0, <2>1, <2>2, <2>3, SerialKept DEF Fewer
  <2>4. CASE t \in ended' /\ t \notin ended
    <3>1. t = Target(c) /\ out = "ok" /\ c \in CallsOn(t)
      BY <2>4 DEF DeleteKey, CallsOn
    <3>2. ~Present(t)'
      BY <1>0, <3>1 DEF DeleteKey, Store, Executed, Present, NoEntry
    <3>3. ASSUME NEW d \in CallsOn(t) PROVE ~Running(d)' /\ ~Holding(d)'
      <4>1. d # c => ~Running(d)
        BY <1>0, <2>0, <3>1 DEF SerialOf
      <4> QED
        BY <1>1, <4>1 DEF Running, Holding, CallsOn
    <3> QED
      BY <1>3, <3>2, <3>3 DEF SerialOf, Holding
  <2> QED
    BY <2>3, <2>4
<1> QED
  BY <1>2, <1>4, <1>5 DEF OverlapInv

\* A call changes its copy, and goes on.
LEMMA SerialCopies ==
    ASSUME IndInv, OverlapInv, NEW c \in Calls, UNCHANGED <<redis, call, result, ended>>,
           faults' = 0 => faults = 0, disturbed \subseteq disturbed', Moves(c),
           pc' = [pc EXCEPT ![c] = pc'[c]], copy' = [copy EXCEPT ![c] = copy'[c]],
           Running(c),
           \A s \in SessionIds \ disturbed' :
               (Target(c) = s /\ SerialOf(s)) =>
                   /\ s \notin ended
                   /\ pc'[c] \in {"read", "updating"}
                   /\ faults' = 0 =>
                         copy'[c].attempts =
                            IF pc'[c] = "read" THEN Cardinality(CompletedUpdates(s))
                            ELSE Cardinality(CompletedUpdates(s)) + 1
    PROVE  OverlapInv'
<1>1. \A d \in Calls \ {c} : pc'[d] = pc[d] /\ copy'[d] = copy[d]
  BY DEF IndInv, Types
<1>2. \A t : CallsOn(t)' = CallsOn(t) /\ CompletedUpdates(t)' = CompletedUpdates(t)
  BY DEF CallsOn, CompletedUpdates, Target
<1>3. Returns'
  <2>1. \A d \in Calls : Moves(d)
    BY <1>1 DEF Moves
  <2>2. result' \in [Calls -> Results] /\ ended' \subseteq Drawn
    BY DEF OverlapInv, Returns
  <2> QED
    BY <2>1, <2>2, ReturnsKept DEF OverlapInv
<1>4. ASSUME NEW t \in SessionIds \ disturbed' PROVE SerialOf(t)'
  <2>0. SerialOf(t)
    BY DEF OverlapInv
  <2>1. CASE Target(c) # t
    <3>1. \A d \in CallsOn(t) : pc'[d] = pc[d] /\ copy'[d] = copy[d]
      BY <1>1, <2>1 DEF CallsOn
    <3> QED
      BY <1>2, <2>0, <3>1, SerialKept
  <2>2. CASE Target(c) = t
    <3>1. c \in CallsOn(t) /\ t \notin ended'
      BY <2>0, <2>2 DEF CallsOn
    <3>2. ASSUME NEW d \in CallsOn(t), d # c PROVE ~Running(d) /\ pc'[d] = pc[d]
      BY <1>1, <2>0, <3>1, <3>2 DEF SerialOf, CallsOn
    <3>3. \A d \in CallsOn(t) : d # c => ~Running(d)' /\ ~Holding(d)'
      BY <3>2 DEF Running, Holding
    <3>4. faults' = 0 /\ Present(t)'
            => redis'[t].data.attempts = Cardinality(CompletedUpdates(t)')
      BY <1>2, <2>0 DEF SerialOf, Present
    <3> QED
      BY <1>2, <2>0, <2>2, <3>1, <3>3, <3>4 DEF SerialOf, Holding
  <2> QED
    BY <2>1, <2>2
<1> QED
  BY <1>3, <1>4 DEF OverlapInv

LEMMA SerialContinue ==
    ASSUME IndInv, OverlapInv, NEW c \in Calls, Continue(c)
    PROVE  OverlapInv'
<1>0. /\ pc \in [Calls -> Pcs] /\ copy \in [Calls -> Data] /\ result \in [Calls -> Results]
      /\ faults \in Nat /\ redis \in [SessionIds -> EntryType]
      /\ pc[c] # "idle" => Target(c) \in SessionIds
  BY SessionAssumption DEF IndInv, Types, Origins, OverlapInv, Returns, SessionAssumption
<1>1. ASSUME NEW out \in Outcomes, CreateStore(c, out) PROVE OverlapInv'
  BY <1>1, SerialStore DEF CreateStore, history, Results
<1>2. ASSUME NEW out \in Outcomes, UpdateStore(c, out) PROVE OverlapInv'
  BY <1>2, SerialStore DEF UpdateStore, history, Results
<1>3. ASSUME NEW out \in Outcomes, ResetStore(c, out) PROVE OverlapInv'
  BY <1>3, SerialStore DEF ResetStore, history, Results
<1>4. ASSUME NEW out \in Outcomes, DeleteKey(c, out) PROVE OverlapInv'
  BY <1>4, SerialDelete
<1>5. ASSUME NEW r \in Results \ {"updated"}, Finish(c, r), Running(c),
             UNCHANGED <<redis, call, disturbed, ended>>, faults' = 0 => faults = 0
      PROVE  OverlapInv'
  <2>1. \A d \in Calls :
            \/ pc'[d] = pc[d] /\ copy'[d] = copy[d] /\ result'[d] = result[d]
            \/ Running(d) /\ pc'[d] = "done" /\ result'[d] # "updated"
    BY <1>0, <1>5 DEF Finish
  <2>2. result' \in [Calls -> Results]
    BY <1>0, <1>5 DEF Finish
  <2> QED
    BY <1>5, <2>1, <2>2, SameKeys, SerialFewer
<1>6. ASSUME NEW out \in Outcomes, Read(c, out) PROVE OverlapInv'
  <2>1. faults' = 0 => faults = 0
    BY <1>0, <1>6 DEF Read, Command
  <2>2. UNCHANGED <<redis, call, disturbed, ended>> /\ pc[c] = "reading" /\ Running(c)
    BY <1>6 DEF Read, history, Running
  <2>3. CASE Finish(c, "missing")
    BY <1>5, <2>1, <2>2, <2>3 DEF Results
  <2>4. CASE /\ Present(Target(c)) /\ copy' = [copy EXCEPT ![c] = redis[Target(c)].data]
             /\ pc' = [pc EXCEPT ![c] = "read"] /\ UNCHANGED result
    <3>1. pc'[c] = "read" /\ copy'[c] = redis[Target(c)].data
      BY <1>0, <2>4
    <3>2. Moves(c) /\ pc' = [pc EXCEPT ![c] = pc'[c]] /\ copy' = [copy EXCEPT ![c] = copy'[c]]
      BY <2>2, <2>4, <3>1 DEF Moves
    <3>3. ASSUME NEW s \in SessionIds \ disturbed', Target(c) = s, SerialOf(s)
          PROVE  /\ s \notin ended
                 /\ faults' = 0 => copy'[c].attempts = Cardinality(CompletedUpdates(s))
      BY <2>1, <2>4, <3>1, <3>3 DEF SerialOf
    <3> QED
      BY <2>1, <2>2, <2>4, <3>1, <3>2, <3>3, SerialCopies
  <2> QED
    BY <1>6, <2>3, <2>4 DEF Read
<1>7. CASE ReadExpired(c)
  <2>1. \A d \in Calls :
            /\ copy'[d] = copy[d] /\ result'[d] = result[d]
            /\ \/ pc'[d] = pc[d]
               \/ pc[d] = "read" /\ pc'[d] = "expiring"
    BY <1>0, <1>7 DEF ReadExpired
  <2> QED
    BY <1>0, <1>7, <2>1, SameKeys, SerialFewer DEF ReadExpired, history
<1>8. CASE ReadReturns(c)
  BY <1>5, <1>8 DEF ReadReturns, history, Running, Results
<1>9. CASE UpdateCounts(c)
  <2>1. /\ pc[c] = "read" /\ pc'[c] = "updating" /\ call[c].op = "update"
        /\ UNCHANGED <<redis, call, result, disturbed, ended, faults>>
        /\ pc' = [pc EXCEPT ![c] = pc'[c]] /\ copy' = [copy EXCEPT ![c] = copy'[c]]
    BY <1>0, <1>9 DEF UpdateCounts
  <2>2. copy'[c].attempts = copy[c].attempts + 1
    BY <1>0, <1>9 DEF UpdateCounts, Counted, Data
  <2>3. Moves(c) /\ Running(c)
    BY <2>1 DEF Moves, Running
  <2>4. ASSUME NEW s \in SessionIds \ disturbed', Target(c) = s, SerialOf(s)
        PROVE  /\ s \notin ended
               /\ faults' = 0 => copy'[c].attempts = Cardinality(CompletedUpdates(s)) + 1
    <3>1. c \in CallsOn(s) /\ Holding(c)
      BY <2>1, <2>4 DEF CallsOn, Holding
    <3> QED
      BY <2>1, <2>2, <2>4, <3>1 DEF SerialOf
  <2> QED
    BY <2>1, <2>3, <2>4, SerialCopies
<1>10. CASE CheckReturns(c)
  BY <1>5, <1>10 DEF CheckReturns, history, Running, Results
<1>11. CASE CheckResets(c)
  <2>1. /\ pc[c] = "read" /\ pc'[c] = "resetting" /\ Target(c) \in disturbed'
        /\ UNCHANGED <<redis, call, result, ended, faults>>
        /\ disturbed \subseteq disturbed'
        /\ pc' = [pc EXCEPT ![c] = pc'[c]]
    BY <1>0, <1>11 DEF CheckResets
  <2>2. copy' = [copy EXCEPT ![c] = copy'[c]]
    BY <1>0, <1>11 DEF CheckResets
  <2>3. Moves(c) /\ Running(c)
    BY <2>1 DEF Moves, Running
  <2> QED
    BY <2>1, <2>2, <2>3, SerialCopies
<1> QED
  BY <1>1, <1>2, <1>3, <1>4, <1>6, <1>7, <1>8, <1>9, <1>10, <1>11 DEF Continue

LEMMA OverlapStep == IndInv /\ OverlapInv /\ [Next]_vars => OverlapInv'
<1> SUFFICES ASSUME IndInv, OverlapInv, [Next]_vars PROVE OverlapInv'
  OBVIOUS
<1>0. result \in [Calls -> Results] /\ faults \in Nat /\ "none" \notin SessionIds
  BY NoneAssumption, SessionAssumption
  DEF OverlapInv, Returns, IndInv, Types, SessionAssumption
<1>1. ASSUME NEW c \in Calls, Start(c) PROVE OverlapInv'
  BY <1>1, SerialStart
<1>2. ASSUME NEW c \in Calls, Continue(c) PROVE OverlapInv'
  BY <1>2, SerialContinue
<1>3. ASSUME Fewer, UNCHANGED <<callVars, disturbed, ended>>, faults' = 0 => faults = 0
      PROVE  OverlapInv'
  BY <1>0, <1>3, SerialFewer DEF callVars
<1>4. ASSUME NEW m \in Managers, Cleanup(m) PROVE OverlapInv'
  <2>1. ASSUME NEW out \in Outcomes, CleanupScan(m, out) PROVE OverlapInv'
    BY <1>0, <1>3, <2>1, SameKeys DEF CleanupScan, Command
  <2>2. ASSUME NEW out \in Outcomes, NEW s \in SessionIds, CleanupRead(m, s, out)
        PROVE  OverlapInv'
    BY <1>0, <1>3, <2>2, SameKeys DEF CleanupRead, Command
  <2>3. ASSUME NEW out \in Outcomes, CleanupDelete(m, out) PROVE OverlapInv'
    BY <1>0, <1>3, <2>3, StoreNothing DEF CleanupDelete, Command
  <2>4. CASE CleanupEnd(m)
    BY <1>3, <2>4, SameKeys DEF CleanupEnd
  <2> QED
    BY <1>4, <2>1, <2>2, <2>3, <2>4 DEF Cleanup
<1>5. ASSUME NEW m \in Managers, Restart(m) PROVE OverlapInv'
  <2>1. result' \in [Calls -> Results]
    BY <1>0, <1>5 DEF Restart, Results
  <2>2. \A c \in Calls :
            \/ /\ pc'[c] = pc[c] /\ result'[c] = result[c]
               /\ Holding(c) => copy'[c] = copy[c]
            \/ Running(c) /\ pc'[c] = "done" /\ result'[c] # "updated"
    BY <1>5 DEF Restart, Holding, Running
  <2> QED
    BY <1>5, <2>1, <2>2, SameKeys, SerialFewer DEF Restart, history
<1>6. CASE Tick
  BY <1>3, <1>6, TickKeys DEF Tick
<1>7. CASE UNCHANGED vars
  BY <1>3, <1>7, SameKeys DEF vars, callVars
<1> QED
  BY <1>1, <1>2, <1>4, <1>5, <1>6, <1>7 DEF Next

\* updateSession and deleteSession are right one call at a time: where no two calls on a
\* session overlap and no reset rewrites it, its stored counter is the number of updates
\* that returned, and once deleted it does not come back, whatever the cleanup, the clock
\* and restarts do.
THEOREM SerialCallsRight == Spec => []OnlyOverlapsErr
<1>1. Init => OverlapInv
  <2> SUFFICES ASSUME Init PROVE OverlapInv
    OBVIOUS
  <2>1. /\ \A c \in Calls : pc[c] = "idle" /\ result[c] = "none" /\ call[c].op = "none"
                            /\ ~Holding(c) /\ ~Running(c)
        /\ \A s \in SessionIds : ~Present(s) /\ s \notin ended
        /\ result \in [Calls -> Results] /\ ended = {}
    BY DEF Init, Holding, Running, Present, NoEntry, Results
  <2>2. Returns
    BY <2>1 DEF Returns
  <2>3. \A s \in SessionIds : SerialOf(s)
    BY <2>1 DEF SerialOf, CallsOn
  <2> QED
    BY <2>2, <2>3 DEF OverlapInv
<1>2. ASSUME IndInv, OverlapInv PROVE OnlyOverlapsErr
  <2>1. ended \subseteq SessionIds
    <3>1. \A c \in Calls : call[c].op = "create" => Target(c) \in SessionIds
      BY <1>2 DEF IndInv, Origins
    <3> QED
      BY <1>2, <3>1 DEF OverlapInv, Returns, Drawn
  <2>2. SerialUpdatesCounted
    BY <1>2 DEF OverlapInv, SerialOf, SerialUpdatesCounted
  <2>3. DeletionUndoneByOverlap
    BY <1>2, <2>1 DEF OverlapInv, SerialOf, DeletionUndoneByOverlap
  <2> QED
    BY <2>2, <2>3 DEF OnlyOverlapsErr
<1> QED
  BY <1>1, <1>2, OverlapStep, Invariance, PTL DEF Spec

=============================================================================
