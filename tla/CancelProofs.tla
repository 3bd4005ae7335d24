---------------------------- MODULE CancelProofs ----------------------------
(***************************************************************************)
(* Both cancel providers for any number of threads and reasons: the shared *)
(* block outlives its handles, reason texts live exactly as long as        *)
(* somebody may read them, and cancel and reset look indivisible, the      *)
(* native ones although they are several steps under a spin lock, those of *)
(* GLib, which keeps flag and reason apart, when nothing overlaps a reset. *)
(***************************************************************************)
EXTENDS MCCancel, FiniteSetTheorems, TLAPS

\* Any finite number of threads, and any bound on the texts ever allocated.
Bounded == IsFiniteSet(Threads) /\ MaxReasons \in Nat

----------------------------------------------------------------------------
(* Types and the reference count *)

\* Only a call that has allocated a text pushes one.
NewIsText == \A t \in Threads : pc[t] \in {"readHistory", "push"} => new[t] \in Atomic!Texts

Typed == Atomic!TypeOK /\ NewIsText

Holders == {t \in Threads : token[t]}

\* The count is the number of live handles; nobody is in a call on a dead source,
\* and freeing begins only when nothing is left to count.
Counted ==
    /\ refCount = Cardinality(Holders) + (IF source THEN 1 ELSE 0)
    /\ source \/ \A t \in Threads : ~ Atomic!InSourceCall(t)
    /\ blockFreed \/ (\E t \in Threads : pc[t] = "free") => refCount = 0

LEMMA HoldersFinite ==
  ASSUME Bounded
  PROVE  /\ IsFiniteSet(Holders) /\ Cardinality(Holders) \in Nat
         /\ Cardinality(Holders) = 0 <=> Holders = {}
  BY FS_Subset, FS_CardinalityType, FS_EmptySet DEF Bounded, Holders

LEMMA LiveHandleCounts ==
  ASSUME Bounded, Counted, source \/ \E t \in Threads : token[t]
  PROVE  refCount \in Nat /\ refCount >= 1 /\ ~ blockFreed /\ \A t \in Threads : pc[t] # "free"
<1>1. refCount \in Nat /\ refCount >= 1
  <2>1. CASE source
    BY <2>1, HoldersFinite DEF Counted
  <2>2. CASE \E t \in Threads : token[t]
    <3>1. Cardinality(Holders) # 0
      BY <2>2, HoldersFinite DEF Holders
    <3>2. QED BY <3>1, HoldersFinite DEF Counted
  <2>3. QED BY <2>1, <2>2
<1>2. QED BY <1>1 DEF Counted

LEMMA TypedInit == ASSUME Bounded PROVE Atomic!Init => Typed /\ Counted
<1> SUFFICES ASSUME Atomic!Init PROVE Typed /\ Counted
  OBVIOUS
<1>1. <<>> \in Seq(Atomic!Texts)
  OBVIOUS
<1>2. Typed
  <2>1. next \in 1..(MaxReasons + 1)
    BY DEF Bounded, Atomic!Init
  <2>2. history \in Seq(Atomic!Texts) /\ tail \in [Threads -> Seq(Atomic!Texts)]
    BY <1>1 DEF Atomic!Init
  <2>3. QED BY <2>1, <2>2 DEF Atomic!Init, Typed, Atomic!TypeOK, NewIsText, Atomic!Stages
<1>3. Holders = {}
  BY DEF Atomic!Init, Holders
<1>4. QED BY <1>2, <1>3, FS_EmptySet DEF Atomic!Init, Counted, Atomic!InSourceCall

LEMMA TypedStep == ASSUME Bounded, Typed, Counted, [Atomic!Next]_(Atomic!vars) PROVE Typed'
<1> USE DEF Typed, Atomic!TypeOK, NewIsText, Atomic!Transition, Atomic!Stages, Atomic!block, Atomic!memory, Atomic!locals, Atomic!handles
<1> Atomic!NoText \notin Atomic!Texts
  BY DEF Atomic!NoText, Atomic!Texts
<1>1. CASE UNCHANGED Atomic!vars
  BY <1>1 DEF Atomic!vars
<1>2. ASSUME NEW t \in Threads, Atomic!CancelBegin(t) PROVE Typed'
  <2>1. /\ pc' \in [Threads -> Atomic!Stages] /\ op' \in [Threads -> {"cancel", "reset"}]
        /\ \A u \in Threads : pc'[u] \in {"readHistory", "push"} => u # t /\ pc'[u] = pc[u]
    BY <1>2 DEF Atomic!CancelBegin
  <2>2. /\ new' \in [Threads -> Atomic!Texts \cup {Atomic!NoText}]
        /\ \A u \in Threads \ {t} : new'[u] = new[u]
    BY <1>2 DEF Atomic!CancelBegin
  <2>3. next' \in 1..(MaxReasons + 1)
    BY <1>2 DEF Atomic!CancelBegin, Bounded, Atomic!Texts
  <2>4. texts' \subseteq Atomic!Texts
    BY <1>2 DEF Atomic!CancelBegin
  <2>5. QED BY <1>2, <2>1, <2>2, <2>3, <2>4 DEF Atomic!CancelBegin
<1>3. ASSUME NEW t \in Threads, Atomic!ResetBegin(t) PROVE Typed'
  BY <1>3 DEF Atomic!ResetBegin
<1>4. ASSUME NEW t \in Threads, Atomic!Lock(t) PROVE Typed'
  BY <1>4 DEF Atomic!Lock
<1>5. ASSUME NEW t \in Threads, Atomic!ReadHistory(t) PROVE Typed'
  BY <1>5 DEF Atomic!ReadHistory
<1>6. ASSUME NEW t \in Threads, Atomic!Push(t) PROVE Typed'
  <2>1. history' \in Seq(Atomic!Texts)
    BY <1>6 DEF Atomic!Push
  <2>2. tail' \in [Threads -> Seq(Atomic!Texts)]
    BY <1>6 DEF Atomic!Push
  <2>3. QED BY <1>6, <2>1, <2>2 DEF Atomic!Push
<1>7. ASSUME NEW t \in Threads, Atomic!StoreReason(t) \/ Atomic!StoreCancelled(t) \/ Atomic!Unlock(t) PROVE Typed'
  BY <1>7 DEF Atomic!StoreReason, Atomic!StoreCancelled, Atomic!Unlock
<1>8. ASSUME NEW t \in Threads, Atomic!Free(t) PROVE Typed'
  <2>1. texts' \subseteq Atomic!Texts
    BY <1>8 DEF Atomic!Free
  <2>2. QED BY <1>8, <2>1 DEF Atomic!Free
<1>9. ASSUME NEW t \in Threads, Atomic!Token(t) \/ Atomic!ReasonUtf8(t) PROVE Typed'
  <2>1. CASE Atomic!Token(t)
    BY <2>1 DEF Atomic!Token
  <2>2. CASE Atomic!ReasonUtf8(t)
    BY <2>2 DEF Atomic!ReasonUtf8
  <2>3. QED BY <1>9, <2>1, <2>2
<1>10. ASSUME NEW t \in Threads, Atomic!TokenDestroy(t) \/ Atomic!SourceDestroy(t) PROVE Typed'
  <2>1. refCount \in Nat /\ refCount >= 1
    BY <1>10, LiveHandleCounts DEF Atomic!TokenDestroy, Atomic!SourceDestroy
  <2>2. refCount' \in Nat
    BY <1>10, <2>1 DEF Atomic!TokenDestroy, Atomic!SourceDestroy, Atomic!Release
  <2>3. QED BY <1>10, <2>2 DEF Atomic!TokenDestroy, Atomic!SourceDestroy, Atomic!Release
<1>11. QED
  BY <1>1, <1>2, <1>3, <1>4, <1>5, <1>6, <1>7, <1>8, <1>9, <1>10 DEF Atomic!Next, Atomic!CallStep

LEMMA CountedStep == ASSUME Bounded, Typed, Counted, [Atomic!Next]_(Atomic!vars) PROVE Counted'
<1> USE DEF Atomic!Transition, Atomic!block, Atomic!memory, Atomic!locals, Atomic!handles
<1>1. pc \in [Threads -> Atomic!Stages] /\ token \in [Threads -> BOOLEAN]
  BY DEF Typed, Atomic!TypeOK
<1>2. CASE UNCHANGED Atomic!vars
  BY <1>2 DEF Atomic!vars, Counted, Holders, Atomic!InSourceCall
<1>3. ASSUME NEW t \in Threads, Atomic!CancelBegin(t) \/ Atomic!ResetBegin(t) PROVE Counted'
  <2>1. source /\ source' /\ UNCHANGED <<refCount, blockFreed, token>>
    BY <1>3 DEF Atomic!CancelBegin, Atomic!ResetBegin
  <2>2. \A u \in Threads : pc'[u] = "free" => pc[u] = "free"
    BY <1>1, <1>3 DEF Atomic!CancelBegin, Atomic!ResetBegin
  <2>3. QED BY <2>1, <2>2 DEF Counted, Holders
<1>4. ASSUME NEW t \in Threads,
             \/ Atomic!Lock(t) \/ Atomic!ReadHistory(t) \/ Atomic!Push(t) \/ Atomic!StoreReason(t)
             \/ Atomic!StoreCancelled(t) \/ Atomic!Unlock(t)
      PROVE  Counted'
  <2>1. source
    BY <1>4 DEF Counted, Atomic!InSourceCall, Atomic!Lock, Atomic!ReadHistory, Atomic!Push, Atomic!StoreReason,
                Atomic!StoreCancelled, Atomic!Unlock
  <2>2. \A u \in Threads : pc'[u] = "free" => pc[u] = "free"
    BY <1>1, <1>4 DEF Atomic!Lock, Atomic!ReadHistory, Atomic!Push, Atomic!StoreReason, Atomic!StoreCancelled, Atomic!Unlock
  <2>3. UNCHANGED <<refCount, blockFreed, source, token>>
    BY <1>4 DEF Atomic!Lock, Atomic!ReadHistory, Atomic!Push, Atomic!StoreReason, Atomic!StoreCancelled, Atomic!Unlock
  <2>4. QED BY <2>1, <2>2, <2>3 DEF Counted, Holders
<1>5. ASSUME NEW t \in Threads, Atomic!Free(t) PROVE Counted'
  BY <1>1, <1>5 DEF Atomic!Free, Counted, Holders, Atomic!InSourceCall
<1>6. ASSUME NEW t \in Threads, Atomic!Token(t) PROVE Counted'
  <2>1. Holders' = Holders \cup {t} /\ t \notin Holders
    BY <1>1, <1>6 DEF Atomic!Token, Holders
  <2>2. Cardinality(Holders') = Cardinality(Holders) + 1
    BY <2>1, HoldersFinite, FS_AddElement
  <2>3. ~ blockFreed /\ \A u \in Threads : pc[u] # "free"
    BY <1>6, LiveHandleCounts DEF Atomic!Token
  <2>4. QED BY <1>6, <2>2, <2>3, HoldersFinite DEF Atomic!Token, Counted
<1>7. ASSUME NEW t \in Threads, Atomic!ReasonUtf8(t) PROVE Counted'
  BY <1>7 DEF Atomic!ReasonUtf8, Counted, Holders, Atomic!InSourceCall
<1>8. ASSUME NEW t \in Threads, Atomic!Release(t), source \/ token[t],
             refCount' = Cardinality(Holders') + (IF source' THEN 1 ELSE 0),
             source' \/ \A u \in Threads : ~ Atomic!InSourceCall(u), UNCHANGED blockFreed
      PROVE  Counted'
  <2>1. /\ refCount \in Nat /\ refCount >= 1
        /\ ~ blockFreed /\ \A u \in Threads : pc[u] # "free"
    BY <1>8, LiveHandleCounts
  <2>2. (\E u \in Threads : pc'[u] = "free") => refCount' = 0
    BY <1>1, <1>8, <2>1 DEF Atomic!Release
  <2>3. \A u \in Threads : Atomic!InSourceCall(u)' => Atomic!InSourceCall(u)
    BY <1>1, <1>8 DEF Atomic!Release, Atomic!InSourceCall
  <2>4. QED BY <1>8, <2>1, <2>2, <2>3 DEF Counted
<1>9. ASSUME NEW t \in Threads, Atomic!TokenDestroy(t) PROVE Counted'
  <2>1. Holders' = Holders \ {t} /\ t \in Holders
    BY <1>1, <1>9 DEF Atomic!TokenDestroy, Holders
  <2>2. Cardinality(Holders') = Cardinality(Holders) - 1
    BY <2>1, HoldersFinite, FS_RemoveElement
  <2>3. refCount' = Cardinality(Holders') + (IF source' THEN 1 ELSE 0)
    BY <1>9, <2>2, HoldersFinite DEF Atomic!TokenDestroy, Atomic!Release, Counted
  <2>4. source' \/ \A u \in Threads : ~ Atomic!InSourceCall(u)
    BY <1>9 DEF Atomic!TokenDestroy, Counted
  <2>5. QED BY <1>8, <1>9, <2>3, <2>4 DEF Atomic!TokenDestroy, Atomic!Release
<1>10. ASSUME NEW t \in Threads, Atomic!SourceDestroy(t) PROVE Counted'
  <2>1. Holders' = Holders
    BY <1>10 DEF Atomic!SourceDestroy, Holders
  <2>2. refCount' = Cardinality(Holders') + (IF source' THEN 1 ELSE 0)
    BY <1>10, <2>1, HoldersFinite DEF Atomic!SourceDestroy, Atomic!Release, Counted
  <2>3. QED BY <1>8, <1>10, <2>2 DEF Atomic!SourceDestroy, Atomic!Release
<1>11. QED
  BY <1>2, <1>3, <1>4, <1>5, <1>6, <1>7, <1>9, <1>10 DEF Atomic!Next, Atomic!CallStep

\* A count of one at least as long as there is a handle: the block is there.
LEMMA CountedKeepsBlock == ASSUME Bounded, Counted PROVE Atomic!BlockOutlivesHandles
<1> SUFFICES ASSUME blockFreed \/ \E t \in Threads : pc[t] = "free"
             PROVE  ~ source /\ \A t \in Threads : ~ token[t] /\ ~ Atomic!InSourceCall(t)
  BY DEF Atomic!BlockOutlivesHandles
<1>1. ~ source /\ \A t \in Threads : ~ token[t]
  BY LiveHandleCounts
<1>2. QED BY <1>1 DEF Counted

----------------------------------------------------------------------------
(* The lock *)

Holding(t) == pc[t] \in {"readHistory", "push", "reason", "flag", "unlock"}

\* One thread at a time is past the test-and-set, what it has read is still true,
\* and a reset carries no text.
LockHeld ==
    /\ \A t \in Threads : Holding(t) => lock
    /\ \A t, u \in Threads : Holding(t) /\ Holding(u) => t = u
    /\ \A t \in Threads : pc[t] = "push" => tail[t] = history
    /\ \A t \in Threads : pc[t] = "flag" => reason = new[t]
    /\ \A t \in Threads : Atomic!InSourceCall(t) /\ op[t] = "reset" => new[t] = Atomic!NoText

LEMMA LockHeldInit == Atomic!Init => LockHeld
  BY DEF Atomic!Init, LockHeld, Holding, Atomic!InSourceCall

LEMMA LockHeldStep == ASSUME Typed, LockHeld, [Atomic!Next]_(Atomic!vars) PROVE LockHeld'
<1> USE DEF Atomic!Transition, Atomic!block, Atomic!memory, Atomic!locals, Atomic!handles, LockHeld, Holding, Atomic!InSourceCall
<1>1. /\ pc \in [Threads -> Atomic!Stages] /\ op \in [Threads -> {"cancel", "reset"}]
      /\ new \in [Threads -> Atomic!Texts \cup {Atomic!NoText}] /\ tail \in [Threads -> Seq(Atomic!Texts)]
  BY DEF Typed, Atomic!TypeOK
<1>2. CASE UNCHANGED Atomic!vars
  BY <1>2 DEF Atomic!vars
<1>3. ASSUME NEW t \in Threads, Atomic!CancelBegin(t) PROVE LockHeld'
  <2>1. /\ pc' = [pc EXCEPT ![t] = "lock"] /\ op' = [op EXCEPT ![t] = "cancel"]
        /\ pc[t] = "idle" /\ UNCHANGED <<lock, history, reason, tail>>
    BY <1>3 DEF Atomic!CancelBegin
  <2>2. \A u \in Threads \ {t} : new'[u] = new[u]
    BY <1>1, <1>3 DEF Atomic!CancelBegin
  <2>3. QED BY <1>1, <2>1, <2>2
<1>4. ASSUME NEW t \in Threads, Atomic!ResetBegin(t) PROVE LockHeld'
  BY <1>1, <1>4 DEF Atomic!ResetBegin
<1>5. ASSUME NEW t \in Threads, Atomic!Lock(t) PROVE LockHeld'
  BY <1>1, <1>5 DEF Atomic!Lock
<1>6. ASSUME NEW t \in Threads, Atomic!ReadHistory(t) PROVE LockHeld'
  BY <1>1, <1>6 DEF Atomic!ReadHistory
<1>7. ASSUME NEW t \in Threads, Atomic!Push(t) PROVE LockHeld'
  BY <1>1, <1>7 DEF Atomic!Push
<1>8. ASSUME NEW t \in Threads, Atomic!StoreReason(t) PROVE LockHeld'
  BY <1>1, <1>8 DEF Atomic!StoreReason
<1>9. ASSUME NEW t \in Threads, Atomic!StoreCancelled(t) PROVE LockHeld'
  BY <1>1, <1>9 DEF Atomic!StoreCancelled
<1>10. ASSUME NEW t \in Threads, Atomic!Unlock(t) PROVE LockHeld'
  BY <1>1, <1>10 DEF Atomic!Unlock
<1>11. ASSUME NEW t \in Threads, Atomic!Free(t) PROVE LockHeld'
  BY <1>1, <1>11 DEF Atomic!Free
<1>12. ASSUME NEW t \in Threads, Atomic!Token(t) \/ Atomic!ReasonUtf8(t) PROVE LockHeld'
  BY <1>1, <1>12 DEF Atomic!Token, Atomic!ReasonUtf8
<1>13. ASSUME NEW t \in Threads, Atomic!TokenDestroy(t) \/ Atomic!SourceDestroy(t) PROVE LockHeld'
  <2>1. /\ pc' \in {pc, [pc EXCEPT ![t] = "free"], [pc EXCEPT ![t] = "idle"]}
        /\ pc[t] = "idle" /\ UNCHANGED <<lock, history, reason, tail, op, new>>
    BY <1>13 DEF Atomic!TokenDestroy, Atomic!SourceDestroy, Atomic!Release
  <2>2. QED BY <1>1, <2>1
<1>14. QED
  BY <1>2, <1>3, <1>4, <1>5, <1>6, <1>7, <1>8, <1>9, <1>10, <1>11, <1>12, <1>13
  DEF Atomic!Next, Atomic!CallStep

----------------------------------------------------------------------------
(* Calls look indivisible *)

\* Only storing the reason and storing the flag touch what a reader sees.
LEMMA HiddenSteps ==
  ASSUME Typed, NEW t \in Threads,
         \/ Atomic!CancelBegin(t) \/ Atomic!ResetBegin(t) \/ Atomic!Lock(t) \/ Atomic!ReadHistory(t) \/ Atomic!Push(t)
         \/ Atomic!Unlock(t) \/ Atomic!Free(t) \/ Atomic!Token(t) \/ Atomic!ReasonUtf8(t)
         \/ Atomic!TokenDestroy(t) \/ Atomic!SourceDestroy(t)
  PROVE  UNCHANGED <<Atomic!effective, reason, cancelled>>
<1> USE DEF Atomic!Transition, Atomic!block, Atomic!memory, Atomic!locals, Atomic!handles
<1>1. pc \in [Threads -> Atomic!Stages] /\ op \in [Threads -> {"cancel", "reset"}]
  BY DEF Typed, Atomic!TypeOK
<1>2. UNCHANGED <<reason, cancelled>>
  BY DEF Atomic!CancelBegin, Atomic!ResetBegin, Atomic!Lock, Atomic!ReadHistory, Atomic!Push, Atomic!Unlock, Atomic!Free, Atomic!Token,
         Atomic!ReasonUtf8, Atomic!TokenDestroy, Atomic!SourceDestroy, Atomic!Release
<1>3. /\ pc'[t] # "flag" /\ pc[t] # "flag"
      /\ \A u \in Threads \ {t} : pc'[u] = pc[u] /\ op'[u] = op[u]
  BY <1>1 DEF Atomic!CancelBegin, Atomic!ResetBegin, Atomic!Lock, Atomic!ReadHistory, Atomic!Push, Atomic!Unlock, Atomic!Free, Atomic!Token,
              Atomic!ReasonUtf8, Atomic!TokenDestroy, Atomic!SourceDestroy, Atomic!Release
<1>4. /\ \A u \in Threads : pc'[u] = "flag" <=> pc[u] = "flag"
      /\ \A u \in Threads : pc'[u] = "flag" => op'[u] = op[u]
  BY <1>3
<1>5. Atomic!effective' = Atomic!effective
  BY <1>2, <1>4 DEF Atomic!effective
<1>6. QED BY <1>2, <1>5

LEMMA AtomicSteps ==
  ASSUME Typed, LockHeld, [Atomic!Next]_(Atomic!vars)
  PROVE  [Atomic!Flag!Next]_(Atomic!Flag!vars) /\ [Atomic!FlagUpWithReason]_(Atomic!vars)
<1> USE DEF Atomic!Transition, Atomic!block, Atomic!memory, Atomic!locals, Atomic!handles
<1>1. /\ pc \in [Threads -> Atomic!Stages] /\ op \in [Threads -> {"cancel", "reset"}]
      /\ new \in [Threads -> Atomic!Texts \cup {Atomic!NoText}] /\ cancelled \in BOOLEAN
  BY DEF Typed, Atomic!TypeOK
<1>2. CASE UNCHANGED Atomic!vars
  BY <1>2 DEF Atomic!vars, Atomic!Flag!vars, Atomic!effective
<1>3. ASSUME NEW t \in Threads, Atomic!StoreReason(t)
      PROVE  [Atomic!Flag!Next]_(Atomic!Flag!vars) /\ [Atomic!FlagUpWithReason]_(Atomic!vars)
  <2>1. /\ pc[t] = "reason" /\ pc'[t] = "flag"
        /\ \A u \in Threads \ {t} : pc'[u] = pc[u]
        /\ reason' = new[t] /\ UNCHANGED <<op, cancelled>>
    BY <1>1, <1>3 DEF Atomic!StoreReason
  <2>2. \A u \in Threads : pc'[u] = "flag" => u = t
    BY <2>1 DEF LockHeld, Holding
  <2>3. Atomic!effective' = (op[t] = "cancel")
    BY <2>1, <2>2 DEF Atomic!effective
  <2>4. CASE op[t] = "cancel"
    <3>1. new[t] \in Atomic!Texts \cup {0}
      BY <1>1 DEF Atomic!NoText
    <3>2. Atomic!Flag!Cancel(new[t])
      BY <2>1, <2>3, <2>4 DEF Atomic!Flag!Cancel
    <3>3. QED BY <2>1, <3>1, <3>2 DEF Atomic!Flag!Next, Atomic!FlagUpWithReason
  <2>5. CASE op[t] = "reset"
    <3>1. new[t] = 0
      BY <2>1, <2>5 DEF LockHeld, Atomic!InSourceCall, Atomic!NoText
    <3>2. Atomic!Flag!Reset
      BY <2>1, <2>3, <2>5, <3>1 DEF Atomic!Flag!Reset
    <3>3. QED BY <2>1, <3>2 DEF Atomic!Flag!Next, Atomic!FlagUpWithReason
  <2>6. QED BY <1>1, <2>4, <2>5
<1>4. ASSUME NEW t \in Threads, Atomic!StoreCancelled(t)
      PROVE  [Atomic!Flag!Next]_(Atomic!Flag!vars) /\ [Atomic!FlagUpWithReason]_(Atomic!vars)
  <2>1. /\ pc[t] = "flag" /\ pc'[t] = "unlock"
        /\ \A u \in Threads \ {t} : pc'[u] = pc[u]
        /\ cancelled' = (op[t] = "cancel") /\ UNCHANGED <<op, reason>>
    BY <1>1, <1>4 DEF Atomic!StoreCancelled
  <2>2. \A u \in Threads : pc[u] = "flag" => u = t
    BY <2>1 DEF LockHeld, Holding
  <2>3. Atomic!effective = (op[t] = "cancel")
    BY <2>1, <2>2 DEF Atomic!effective
  <2>4. \A u \in Threads : pc'[u] # "flag"
    BY <2>1, <2>2
  <2>5. Atomic!effective' = cancelled'
    BY <2>4 DEF Atomic!effective
  <2>6. UNCHANGED Atomic!Flag!vars
    BY <2>1, <2>3, <2>5 DEF Atomic!Flag!vars
  <2>7. Atomic!FlagUpWithReason
    BY <2>1 DEF Atomic!FlagUpWithReason, LockHeld
  <2>8. QED BY <2>6, <2>7
<1>5. ASSUME UNCHANGED <<Atomic!effective, reason, cancelled>>
      PROVE  [Atomic!Flag!Next]_(Atomic!Flag!vars) /\ [Atomic!FlagUpWithReason]_(Atomic!vars)
  BY <1>5 DEF Atomic!Flag!vars, Atomic!FlagUpWithReason
<1>6. QED
  BY <1>2, <1>3, <1>4, <1>5, HiddenSteps DEF Atomic!Next, Atomic!CallStep

----------------------------------------------------------------------------
(* Reason texts *)

Pushed == {history[i] : i \in DOMAIN history}

\* The call has a text that is not yet in the history.
Pending(t) == pc[t] \in {"lock", "readHistory", "push"}

\* Every allocated text is in the history or about to be pushed; what may still be
\* read is in the history; the history lives until the block is freed.
Kept ==
    /\ \A x \in texts : x \in Pushed \/ \E t \in Threads : Pending(t) /\ new[t] = x
    /\ ~ blockFreed => Pushed \subseteq texts
    /\ ~ blockFreed => \A t \in Threads : Pending(t) /\ new[t] # Atomic!NoText => new[t] \in texts
    /\ \A t \in Threads : pc[t] = "reason" => new[t] \in Pushed \cup {Atomic!NoText}
    /\ reason \in Pushed \cup {Atomic!NoText}
    /\ \A t \in Threads : borrowed[t] # Atomic!NoText => token[t] /\ borrowed[t] \in Pushed
    /\ blockFreed => texts = {}

LEMMA KeptInit == Atomic!Init => Kept
  BY DEF Atomic!Init, Kept, Pushed, Pending

LEMMA PushedGrows ==
  ASSUME NEW S, NEW x \in S, history \in Seq(S), history' = <<x>> \o history
  PROVE  Pushed' = Pushed \cup {x}
<1>1. /\ Len(history') = Len(history) + 1 /\ DOMAIN history' = 1..Len(history')
      /\ DOMAIN history = 1..Len(history) /\ Len(history) \in Nat
      /\ history'[1] = x
      /\ \A i \in 1..Len(history) : history'[i + 1] = history[i]
  OBVIOUS
<1>2. \A i \in DOMAIN history' :
         i # 1 => i - 1 \in DOMAIN history /\ history'[i] = history[i - 1]
  <2> TAKE i \in DOMAIN history'
  <2>1. i = 1 \/ i - 1 \in 1..Len(history)
    BY <1>1
  <2>2. i - 1 \in 1..Len(history) => history'[(i - 1) + 1] = history[i - 1]
    BY <1>1
  <2>3. QED BY <1>1, <2>1, <2>2
<1>3. \A i \in DOMAIN history : i + 1 \in DOMAIN history' /\ history'[i + 1] = history[i]
  BY <1>1
<1>4. 1 \in DOMAIN history'
  BY <1>1
<1>5. ASSUME NEW y \in Pushed' PROVE y \in Pushed \cup {x}
  <2>1. PICK i \in DOMAIN history' : y = history'[i]
    BY DEF Pushed
  <2>2. QED BY <1>1, <1>2, <2>1 DEF Pushed
<1>6. ASSUME NEW y \in Pushed \cup {x} PROVE y \in Pushed'
  BY <1>1, <1>3, <1>4 DEF Pushed
<1>7. QED BY <1>5, <1>6

LEMMA KeptStep ==
  ASSUME Bounded, Typed, Counted, LockHeld, Kept, [Atomic!Next]_(Atomic!vars)
  PROVE  Kept'
<1> USE DEF Atomic!Transition, Atomic!block, Atomic!memory, Atomic!locals, Atomic!handles, Kept
<1>1. /\ pc \in [Threads -> Atomic!Stages] /\ token \in [Threads -> BOOLEAN]
      /\ new \in [Threads -> Atomic!Texts \cup {Atomic!NoText}]
      /\ borrowed \in [Threads -> Atomic!Texts \cup {Atomic!NoText}]
  BY DEF Typed, Atomic!TypeOK
<1>2. CASE UNCHANGED Atomic!vars
  BY <1>2 DEF Atomic!vars, Pushed, Pending
<1>3. ASSUME NEW t \in Threads, Atomic!CancelBegin(t) PROVE Kept'
  <2>1. /\ pc[t] = "idle" /\ pc'[t] = "lock"
        /\ \A u \in Threads \ {t} : pc'[u] = pc[u] /\ new'[u] = new[u]
        /\ UNCHANGED <<Pushed, reason, borrowed, token, blockFreed>>
    BY <1>1, <1>3 DEF Atomic!CancelBegin, Pushed
  <2>2. ~ blockFreed
    BY <1>3, LiveHandleCounts DEF Atomic!CancelBegin
  <2>3. CASE new' = [new EXCEPT ![t] = Atomic!NoText] /\ texts' = texts
    BY <1>1, <2>1, <2>2, <2>3 DEF Pending
  <2>4. CASE /\ new' = [new EXCEPT ![t] = next]
             /\ texts' = texts \cup {next}
    BY <1>1, <2>1, <2>2, <2>4 DEF Pending
  <2>5. QED BY <1>3, <2>3, <2>4 DEF Atomic!CancelBegin
<1>4. ASSUME NEW t \in Threads, Atomic!ResetBegin(t) PROVE Kept'
  <2>1. /\ pc[t] = "idle" /\ pc'[t] = "lock" /\ new'[t] = Atomic!NoText
        /\ \A u \in Threads \ {t} : pc'[u] = pc[u] /\ new'[u] = new[u]
        /\ UNCHANGED <<Pushed, reason, borrowed, token, texts, blockFreed>>
    BY <1>1, <1>4 DEF Atomic!ResetBegin, Pushed
  <2>2. QED BY <1>1, <2>1 DEF Pending
<1>5. ASSUME NEW t \in Threads, Atomic!Lock(t) PROVE Kept'
  <2>1. /\ pc[t] = "lock" /\ pc'[t] = IF new[t] = Atomic!NoText THEN "reason" ELSE "readHistory"
        /\ \A u \in Threads \ {t} : pc'[u] = pc[u]
        /\ UNCHANGED <<Pushed, reason, borrowed, token, texts, blockFreed, new>>
    BY <1>1, <1>5 DEF Atomic!Lock, Pushed
  <2>2. Atomic!NoText \notin texts
    BY DEF Typed, Atomic!TypeOK, Atomic!NoText, Atomic!Texts
  <2>3. QED BY <1>1, <2>1, <2>2 DEF Pending
<1>6. ASSUME NEW t \in Threads, Atomic!ReadHistory(t) PROVE Kept'
  <2>1. /\ pc[t] = "readHistory" /\ pc'[t] = "push"
        /\ \A u \in Threads \ {t} : pc'[u] = pc[u]
        /\ UNCHANGED <<Pushed, reason, borrowed, token, texts, blockFreed, new>>
    BY <1>1, <1>6 DEF Atomic!ReadHistory, Pushed
  <2>2. QED BY <1>1, <2>1 DEF Pending
<1>7. ASSUME NEW t \in Threads, Atomic!Push(t) PROVE Kept'
  <2>1. /\ pc[t] = "push" /\ pc'[t] = "reason"
        /\ \A u \in Threads \ {t} : pc'[u] = pc[u]
        /\ UNCHANGED <<reason, borrowed, token, texts, blockFreed, new>>
    BY <1>1, <1>7 DEF Atomic!Push
  <2>2. tail[t] = history /\ history \in Seq(Atomic!Texts) /\ new[t] \in Atomic!Texts
    BY <2>1 DEF LockHeld, Typed, Atomic!TypeOK, NewIsText
  <2>3. Pushed' = Pushed \cup {new[t]}
    <3>1. PICK x \in Atomic!Texts : x = new[t]
      BY <2>2
    <3>2. history' = <<x>> \o history
      BY <1>7, <2>2, <3>1 DEF Atomic!Push
    <3>3. QED BY <2>2, <3>1, <3>2, PushedGrows
  <2>4. ~ blockFreed => new[t] \in texts
    BY <2>1, <2>2 DEF Pending, Atomic!NoText, Atomic!Texts
  <2>5. \A x \in texts' : x \in Pushed' \/ \E u \in Threads : Pending(u)' /\ new'[u] = x
    BY <2>1, <2>3 DEF Pending
  <2>6. QED BY <2>1, <2>3, <2>4, <2>5 DEF Pending
<1>8. ASSUME NEW t \in Threads, Atomic!StoreReason(t) PROVE Kept'
  <2>1. /\ pc[t] = "reason" /\ pc'[t] = "flag" /\ reason' = new[t]
        /\ \A u \in Threads \ {t} : pc'[u] = pc[u]
        /\ UNCHANGED <<Pushed, borrowed, token, texts, blockFreed, new>>
    BY <1>1, <1>8 DEF Atomic!StoreReason, Pushed
  <2>2. QED BY <2>1 DEF Pending
<1>9. ASSUME NEW t \in Threads,
             Atomic!StoreCancelled(t) \/ Atomic!Unlock(t) \/ Atomic!Token(t) \/ Atomic!SourceDestroy(t)
      PROVE  Kept'
  <2>1. /\ ~ Pending(t) /\ pc'[t] \in {"unlock", "idle", "free"}
        /\ \A u \in Threads \ {t} : pc'[u] = pc[u]
        /\ \A u \in Threads : token[u] => token'[u]
        /\ UNCHANGED <<Pushed, reason, borrowed, texts, blockFreed, new>>
    BY <1>1, <1>9 DEF Atomic!StoreCancelled, Atomic!Unlock, Atomic!Token, Atomic!SourceDestroy, Atomic!Release, Pushed, Pending
  <2>2. QED BY <2>1 DEF Pending
<1>10. ASSUME NEW t \in Threads, Atomic!ReasonUtf8(t) PROVE Kept'
  <2>1. token[t] /\ UNCHANGED <<pc, Pushed, reason, token, texts, blockFreed, new>>
    BY <1>10 DEF Atomic!ReasonUtf8, Pushed
  <2>2. borrowed' = [borrowed EXCEPT ![t] = reason]
    BY <1>10 DEF Atomic!ReasonUtf8
  <2>3. QED BY <1>1, <2>1, <2>2 DEF Pending
<1>11. ASSUME NEW t \in Threads, Atomic!TokenDestroy(t) PROVE Kept'
  <2>1. /\ pc[t] = "idle" /\ pc'[t] \in {"idle", "free"}
        /\ \A u \in Threads \ {t} : pc'[u] = pc[u] /\ token'[u] = token[u]
        /\ borrowed' = [borrowed EXCEPT ![t] = Atomic!NoText]
        /\ UNCHANGED <<Pushed, reason, texts, blockFreed, new>>
    BY <1>1, <1>11 DEF Atomic!TokenDestroy, Atomic!Release, Pushed
  <2>2. QED BY <1>1, <2>1 DEF Pending
<1>12. ASSUME NEW t \in Threads, Atomic!Free(t) PROVE Kept'
  <2>1. \A u \in Threads : ~ Atomic!InSourceCall(u) /\ ~ token[u]
    <3>1. pc[t] = "free"
      BY <1>12 DEF Atomic!Free
    <3>2. ~ source /\ \A u \in Threads : ~ token[u]
      BY <3>1, LiveHandleCounts
    <3>3. QED BY <3>2 DEF Counted
  <2>2. texts \subseteq Pushed
    BY <2>1 DEF Atomic!InSourceCall, Pending
  <2>3. texts' = {}
    BY <1>12, <2>2 DEF Atomic!Free, Pushed
  <2>4. /\ blockFreed' /\ pc' = [pc EXCEPT ![t] = "idle"]
        /\ UNCHANGED <<Pushed, reason, borrowed, token, new>>
    BY <1>12 DEF Atomic!Free, Pushed
  <2>5. QED BY <1>1, <2>3, <2>4
<1>13. QED
  BY <1>2, <1>3, <1>4, <1>5, <1>6, <1>7, <1>8, <1>9, <1>10, <1>11, <1>12 DEF Atomic!Next, Atomic!CallStep

NativeInv == Typed /\ Counted /\ LockHeld /\ Kept

LEMMA NativeInit == ASSUME Bounded PROVE Atomic!Init => NativeInv
  BY TypedInit, LockHeldInit, KeptInit DEF NativeInv

LEMMA NativeStep == ASSUME Bounded, NativeInv, [Atomic!Next]_(Atomic!vars) PROVE NativeInv'
  BY TypedStep, CountedStep, LockHeldStep, KeptStep DEF NativeInv

----------------------------------------------------------------------------
(* GLib: types and the reference count *)

GlibStages == {"idle", "publish", "raise", "lower", "clear", "free"}

GlibTyped ==
    /\ refCount \in Nat
    /\ cancelled \in BOOLEAN /\ blockFreed \in BOOLEAN /\ source \in BOOLEAN
    /\ reason \in Overlapping!Texts \cup {Overlapping!NoText}
    /\ history \in Seq(Overlapping!Texts)
    /\ texts \subseteq Overlapping!Texts
    /\ next \in 1..(MaxReasons + 1)
    /\ pc \in [Threads -> GlibStages]
    /\ new \in [Threads -> Overlapping!Texts \cup {Overlapping!NoText}]
    /\ token \in [Threads -> BOOLEAN]
    /\ borrowed \in [Threads -> Overlapping!Texts \cup {Overlapping!NoText}]

LEMMA GlibTypedInit == ASSUME Bounded, Overlapping!Init PROVE GlibTyped /\ Counted
<1>1. <<>> \in Seq(Overlapping!Texts) /\ next \in 1..(MaxReasons + 1)
  BY DEF Bounded, Overlapping!Init
<1>2. GlibTyped
  BY <1>1 DEF Overlapping!Init, GlibTyped, GlibStages
<1>3. Holders = {}
  BY DEF Overlapping!Init, Holders
<1>4. QED BY <1>2, <1>3, FS_EmptySet DEF Overlapping!Init, Counted, Atomic!InSourceCall

\* Callers who let nothing overlap a reset do nothing that others may not.
LEMMA ExclusiveIsOverlapping == ASSUME Exclusive!Next PROVE Overlapping!Next
<1> USE DEF Exclusive!Transition, Overlapping!Transition, Exclusive!InSourceCall,
            Overlapping!InSourceCall, Exclusive!Cancelling, Overlapping!Cancelling,
            Exclusive!Resetting, Overlapping!Resetting, Exclusive!Release, Overlapping!Release,
            Exclusive!Texts, Overlapping!Texts, Exclusive!NoText, Overlapping!NoText,
            Exclusive!memory, Overlapping!memory, Exclusive!handles, Overlapping!handles
<1>1. PICK t \in Threads :
        \/ Exclusive!CancelBegin(t) \/ Exclusive!Publish(t) \/ Exclusive!Raise(t)
        \/ Exclusive!ResetBegin(t) \/ Exclusive!Lower(t) \/ Exclusive!Clear(t)
        \/ Exclusive!Token(t) \/ Exclusive!ReasonUtf8(t) \/ Exclusive!TokenDestroy(t)
        \/ Exclusive!SourceDestroy(t) \/ Exclusive!Free(t)
  BY DEF Exclusive!Next
<1>2. Exclusive!CancelBegin(t) => Overlapping!CancelBegin(t)
  BY DEF Exclusive!CancelBegin, Overlapping!CancelBegin
<1>3. Exclusive!Publish(t) => Overlapping!Publish(t)
  BY DEF Exclusive!Publish, Overlapping!Publish
<1>4. Exclusive!Raise(t) => Overlapping!Raise(t)
  BY DEF Exclusive!Raise, Overlapping!Raise
<1>5. Exclusive!ResetBegin(t) => Overlapping!ResetBegin(t)
  BY DEF Exclusive!ResetBegin, Overlapping!ResetBegin
<1>6. Exclusive!Lower(t) \/ Exclusive!Clear(t) => Overlapping!Lower(t) \/ Overlapping!Clear(t)
  BY DEF Exclusive!Lower, Overlapping!Lower, Exclusive!Clear, Overlapping!Clear
<1>7. Exclusive!Token(t) \/ Exclusive!ReasonUtf8(t) => Overlapping!Token(t) \/ Overlapping!ReasonUtf8(t)
  BY DEF Exclusive!Token, Overlapping!Token, Exclusive!ReasonUtf8, Overlapping!ReasonUtf8
<1>8. Exclusive!TokenDestroy(t) => Overlapping!TokenDestroy(t)
  BY DEF Exclusive!TokenDestroy, Overlapping!TokenDestroy
<1>9. Exclusive!SourceDestroy(t) => Overlapping!SourceDestroy(t)
  BY DEF Exclusive!SourceDestroy, Overlapping!SourceDestroy
<1>10. Exclusive!Free(t) => Overlapping!Free(t)
  BY DEF Exclusive!Free, Overlapping!Free
<1>11. QED
  BY <1>1, <1>2, <1>3, <1>4, <1>5, <1>6, <1>7, <1>8, <1>9, <1>10 DEF Overlapping!Next

LEMMA GlibTypedStep == ASSUME Bounded, GlibTyped, Counted, Overlapping!Next PROVE GlibTyped'
<1> USE DEF GlibTyped, Overlapping!Transition, GlibStages, Overlapping!memory, Overlapping!handles
<1>1. ASSUME NEW t \in Threads, Overlapping!CancelBegin(t) PROVE GlibTyped'
  <2>1. next' \in 1..(MaxReasons + 1)
    BY <1>1 DEF Overlapping!CancelBegin, Bounded, Overlapping!Texts
  <2>2. texts' \subseteq Overlapping!Texts
    BY <1>1 DEF Overlapping!CancelBegin
  <2>3. new' \in [Threads -> Overlapping!Texts \cup {Overlapping!NoText}]
    BY <1>1 DEF Overlapping!CancelBegin
  <2>4. QED BY <1>1, <2>1, <2>2, <2>3 DEF Overlapping!CancelBegin
<1>2. ASSUME NEW t \in Threads, Overlapping!Publish(t) PROVE GlibTyped'
  <2>1. history' \in Seq(Overlapping!Texts)
    BY <1>2 DEF Overlapping!Publish
  <2>2. QED BY <1>2, <2>1 DEF Overlapping!Publish
<1>3. ASSUME NEW t \in Threads,
             \/ Overlapping!Raise(t) \/ Overlapping!ResetBegin(t) \/ Overlapping!Lower(t)
             \/ Overlapping!Clear(t)
      PROVE  GlibTyped'
  <2>1. CASE Overlapping!Raise(t) \/ Overlapping!Lower(t)
    BY <2>1 DEF Overlapping!Raise, Overlapping!Lower
  <2>2. CASE Overlapping!ResetBegin(t)
    BY <2>2 DEF Overlapping!ResetBegin
  <2>3. CASE Overlapping!Clear(t)
    BY <2>3 DEF Overlapping!Clear
  <2>4. QED BY <1>3, <2>1, <2>2, <2>3
<1>4. ASSUME NEW t \in Threads, Overlapping!Token(t) \/ Overlapping!ReasonUtf8(t) PROVE GlibTyped'
  <2>1. CASE Overlapping!Token(t)
    BY <2>1 DEF Overlapping!Token
  <2>2. CASE Overlapping!ReasonUtf8(t)
    BY <2>2 DEF Overlapping!ReasonUtf8
  <2>3. QED BY <1>4, <2>1, <2>2
<1>5. ASSUME NEW t \in Threads, Overlapping!TokenDestroy(t) \/ Overlapping!SourceDestroy(t)
      PROVE  GlibTyped'
  <2>1. refCount \in Nat /\ refCount >= 1
    BY <1>5, LiveHandleCounts DEF Overlapping!TokenDestroy, Overlapping!SourceDestroy
  <2>2. refCount' \in Nat
    BY <1>5, <2>1 DEF Overlapping!TokenDestroy, Overlapping!SourceDestroy, Overlapping!Release
  <2>3. QED
    BY <1>5, <2>2 DEF Overlapping!TokenDestroy, Overlapping!SourceDestroy, Overlapping!Release
<1>6. ASSUME NEW t \in Threads, Overlapping!Free(t) PROVE GlibTyped'
  <2>1. texts' \subseteq Overlapping!Texts
    BY <1>6 DEF Overlapping!Free
  <2>2. QED BY <1>6, <2>1 DEF Overlapping!Free
<1>7. QED
  BY <1>1, <1>2, <1>3, <1>4, <1>5, <1>6 DEF Overlapping!Next

LEMMA GlibCountedStep == ASSUME Bounded, GlibTyped, Counted, Overlapping!Next PROVE Counted'
<1> USE DEF Overlapping!Transition, Overlapping!memory, Overlapping!handles
<1>1. pc \in [Threads -> GlibStages] /\ token \in [Threads -> BOOLEAN]
  BY DEF GlibTyped
<1>2. ASSUME NEW t \in Threads, Overlapping!CancelBegin(t) \/ Overlapping!ResetBegin(t)
      PROVE  Counted'
  <2>1. source /\ source' /\ UNCHANGED <<refCount, blockFreed, token>>
    BY <1>2 DEF Overlapping!CancelBegin, Overlapping!ResetBegin
  <2>2. \A u \in Threads : pc'[u] = "free" => pc[u] = "free"
    BY <1>1, <1>2 DEF Overlapping!CancelBegin, Overlapping!ResetBegin
  <2>3. QED BY <2>1, <2>2 DEF Counted, Holders
<1>3. ASSUME NEW t \in Threads,
             \/ Overlapping!Publish(t) \/ Overlapping!Raise(t) \/ Overlapping!Lower(t)
             \/ Overlapping!Clear(t)
      PROVE  Counted'
  <2>1. source
    BY <1>3 DEF Counted, Atomic!InSourceCall, Overlapping!Publish, Overlapping!Raise,
                Overlapping!Lower, Overlapping!Clear
  <2>2. /\ UNCHANGED <<refCount, blockFreed, source, token>>
        /\ \A u \in Threads : pc'[u] = "free" => pc[u] = "free"
    BY <1>1, <1>3 DEF Overlapping!Publish, Overlapping!Raise, Overlapping!Lower, Overlapping!Clear
  <2>3. QED BY <2>1, <2>2 DEF Counted, Holders
<1>4. ASSUME NEW t \in Threads, Overlapping!Free(t) PROVE Counted'
  BY <1>1, <1>4 DEF Overlapping!Free, Counted, Holders, Atomic!InSourceCall
<1>5. ASSUME NEW t \in Threads, Overlapping!Token(t) PROVE Counted'
  <2>1. Holders' = Holders \cup {t} /\ t \notin Holders
    BY <1>1, <1>5 DEF Overlapping!Token, Holders
  <2>2. Cardinality(Holders') = Cardinality(Holders) + 1
    BY <2>1, HoldersFinite, FS_AddElement
  <2>3. ~ blockFreed /\ \A u \in Threads : pc[u] # "free"
    BY <1>5, LiveHandleCounts DEF Overlapping!Token
  <2>4. QED BY <1>5, <2>2, <2>3, HoldersFinite DEF Overlapping!Token, Counted
<1>6. ASSUME NEW t \in Threads, Overlapping!ReasonUtf8(t) PROVE Counted'
  BY <1>6 DEF Overlapping!ReasonUtf8, Counted, Holders, Atomic!InSourceCall
<1>7. ASSUME NEW t \in Threads, Overlapping!Release(t), source \/ token[t],
             refCount' = Cardinality(Holders') + (IF source' THEN 1 ELSE 0),
             source' \/ \A u \in Threads : ~ Atomic!InSourceCall(u), UNCHANGED blockFreed
      PROVE  Counted'
  <2>1. /\ refCount \in Nat /\ refCount >= 1
        /\ ~ blockFreed /\ \A u \in Threads : pc[u] # "free"
    BY <1>7, LiveHandleCounts
  <2>2. (\E u \in Threads : pc'[u] = "free") => refCount' = 0
    BY <1>1, <1>7, <2>1 DEF Overlapping!Release
  <2>3. \A u \in Threads : pc[u] \in {"idle", "free"} => pc'[u] \in {"idle", "free"}
    BY <1>1, <1>7 DEF Overlapping!Release
  <2>4. QED BY <1>7, <2>1, <2>2, <2>3 DEF Counted, Atomic!InSourceCall
<1>8. ASSUME NEW t \in Threads, Overlapping!TokenDestroy(t) PROVE Counted'
  <2>1. Holders' = Holders \ {t} /\ t \in Holders
    BY <1>1, <1>8 DEF Overlapping!TokenDestroy, Holders
  <2>2. Cardinality(Holders') = Cardinality(Holders) - 1
    BY <2>1, HoldersFinite, FS_RemoveElement
  <2>3. refCount' = Cardinality(Holders') + (IF source' THEN 1 ELSE 0)
    BY <1>8, <2>2, HoldersFinite DEF Overlapping!TokenDestroy, Overlapping!Release, Counted
  <2>4. source' \/ \A u \in Threads : ~ Atomic!InSourceCall(u)
    BY <1>8 DEF Overlapping!TokenDestroy, Counted
  <2>5. QED BY <1>7, <1>8, <2>3, <2>4 DEF Overlapping!TokenDestroy, Overlapping!Release
<1>9. ASSUME NEW t \in Threads, Overlapping!SourceDestroy(t) PROVE Counted'
  <2>1. Holders' = Holders
    BY <1>9 DEF Overlapping!SourceDestroy, Holders
  <2>2. refCount' = Cardinality(Holders') + (IF source' THEN 1 ELSE 0)
    BY <1>9, <2>1, HoldersFinite DEF Overlapping!SourceDestroy, Overlapping!Release, Counted
  <2>3. \A u \in Threads : ~ Atomic!InSourceCall(u)
    BY <1>1, <1>9 DEF Overlapping!SourceDestroy, Overlapping!InSourceCall, Atomic!InSourceCall,
                      Overlapping!Cancelling, Overlapping!Resetting, GlibStages
  <2>4. QED BY <1>7, <1>9, <2>2, <2>3 DEF Overlapping!SourceDestroy, Overlapping!Release
<1>10. QED
  BY <1>2, <1>3, <1>4, <1>5, <1>6, <1>8, <1>9 DEF Overlapping!Next

----------------------------------------------------------------------------
(* GLib: reason texts *)

\* Every allocated text is in the history or about to be published; what may still
\* be read is in the history; the history lives until the block is freed.
GlibKept ==
    /\ \A x \in texts : x \in Pushed \/ \E t \in Threads : pc[t] = "publish" /\ new[t] = x
    /\ ~ blockFreed => Pushed \subseteq texts
    /\ ~ blockFreed =>
           \A t \in Threads : pc[t] = "publish" /\ new[t] # Overlapping!NoText => new[t] \in texts
    /\ reason \in Pushed \cup {Overlapping!NoText}
    /\ \A t \in Threads : borrowed[t] # Overlapping!NoText => token[t] /\ borrowed[t] \in Pushed
    /\ blockFreed => texts = {}

LEMMA GlibKeptInit == Overlapping!Init => GlibKept
  BY DEF Overlapping!Init, GlibKept, Pushed

LEMMA GlibKeptStep ==
  ASSUME Bounded, GlibTyped, Counted, GlibKept, Overlapping!Next
  PROVE  GlibKept'
<1> USE DEF Overlapping!Transition, Overlapping!memory, Overlapping!handles, GlibKept
<1>1. /\ pc \in [Threads -> GlibStages] /\ token \in [Threads -> BOOLEAN]
      /\ new \in [Threads -> Overlapping!Texts \cup {Overlapping!NoText}]
      /\ borrowed \in [Threads -> Overlapping!Texts \cup {Overlapping!NoText}]
  BY DEF GlibTyped
<1>2. ASSUME NEW t \in Threads, Overlapping!CancelBegin(t) PROVE GlibKept'
  <2>1. /\ pc[t] = "idle" /\ pc'[t] = "publish"
        /\ \A u \in Threads \ {t} : pc'[u] = pc[u] /\ new'[u] = new[u]
        /\ UNCHANGED <<Pushed, reason, borrowed, token, blockFreed>>
    BY <1>1, <1>2 DEF Overlapping!CancelBegin, Pushed
  <2>2. ~ blockFreed
    BY <1>2, LiveHandleCounts DEF Overlapping!CancelBegin
  <2>3. CASE new' = [new EXCEPT ![t] = Overlapping!NoText] /\ texts' = texts
    BY <1>1, <2>1, <2>2, <2>3
  <2>4. CASE new' = [new EXCEPT ![t] = next] /\ texts' = texts \cup {next}
    BY <1>1, <2>1, <2>2, <2>4
  <2>5. QED BY <1>2, <2>3, <2>4 DEF Overlapping!CancelBegin
<1>3. ASSUME NEW t \in Threads, Overlapping!Publish(t) PROVE GlibKept'
  <2>1. /\ pc[t] = "publish" /\ pc'[t] = "raise" /\ reason' = new[t]
        /\ \A u \in Threads \ {t} : pc'[u] = pc[u]
        /\ UNCHANGED <<borrowed, token, texts, blockFreed, new>>
    BY <1>1, <1>3 DEF Overlapping!Publish
  <2>2. Pushed' = Pushed \cup ({new[t]} \ {Overlapping!NoText})
    <3>1. CASE new[t] = Overlapping!NoText
      BY <1>3, <3>1 DEF Overlapping!Publish, Pushed
    <3>2. CASE new[t] # Overlapping!NoText
      <4>1. history \in Seq(Overlapping!Texts) /\ new[t] \in Overlapping!Texts
        BY <1>1, <3>2 DEF GlibTyped
      <4>2. PICK x \in Overlapping!Texts : x = new[t]
        BY <4>1
      <4>3. history' = <<x>> \o history
        BY <1>3, <3>2, <4>2 DEF Overlapping!Publish
      <4>4. Pushed' = Pushed \cup {x}
        BY <4>1, <4>3, PushedGrows
      <4>5. QED BY <3>2, <4>2, <4>4
    <3>3. QED BY <3>1, <3>2
  <2>3. ~ blockFreed => new[t] \in texts \cup {Overlapping!NoText}
    BY <2>1
  <2>4. \A x \in texts : x # Overlapping!NoText
    BY DEF GlibTyped, Overlapping!NoText, Overlapping!Texts
  <2>5. \A x \in texts' : x \in Pushed' \/ \E u \in Threads : pc'[u] = "publish" /\ new'[u] = x
    BY <2>1, <2>2, <2>4
  <2>6. QED BY <2>1, <2>2, <2>3, <2>5
<1>4. ASSUME NEW t \in Threads,
             \/ Overlapping!Raise(t) \/ Overlapping!ResetBegin(t) \/ Overlapping!Lower(t)
             \/ Overlapping!Clear(t) \/ Overlapping!Token(t) \/ Overlapping!SourceDestroy(t)
      PROVE  GlibKept'
  <2>1. /\ pc[t] # "publish" /\ pc'[t] # "publish"
        /\ \A u \in Threads \ {t} : pc'[u] = pc[u]
        /\ \A u \in Threads : token[u] => token'[u]
        /\ reason' \in {reason, Overlapping!NoText}
        /\ UNCHANGED <<Pushed, borrowed, texts, blockFreed, new>>
    BY <1>1, <1>4 DEF Overlapping!Raise, Overlapping!ResetBegin, Overlapping!Lower,
                      Overlapping!Clear, Overlapping!Token, Overlapping!SourceDestroy,
                      Overlapping!Release, Pushed
  <2>2. QED BY <2>1
<1>5. ASSUME NEW t \in Threads, Overlapping!ReasonUtf8(t) PROVE GlibKept'
  <2>1. /\ token[t] /\ UNCHANGED <<pc, Pushed, reason, token, texts, blockFreed, new>>
        /\ borrowed' = [borrowed EXCEPT ![t] = reason]
    BY <1>5 DEF Overlapping!ReasonUtf8, Pushed
  <2>2. QED BY <1>1, <2>1
<1>6. ASSUME NEW t \in Threads, Overlapping!TokenDestroy(t) PROVE GlibKept'
  <2>1. /\ pc[t] = "idle" /\ pc'[t] \in {"idle", "free"}
        /\ \A u \in Threads \ {t} : pc'[u] = pc[u] /\ token'[u] = token[u]
        /\ borrowed' = [borrowed EXCEPT ![t] = Overlapping!NoText]
        /\ UNCHANGED <<Pushed, reason, texts, blockFreed, new>>
    BY <1>1, <1>6 DEF Overlapping!TokenDestroy, Overlapping!Release, Pushed
  <2>2. QED BY <1>1, <2>1
<1>7. ASSUME NEW t \in Threads, Overlapping!Free(t) PROVE GlibKept'
  <2>1. \A u \in Threads : ~ Atomic!InSourceCall(u) /\ ~ token[u]
    <3>1. pc[t] = "free"
      BY <1>7 DEF Overlapping!Free
    <3>2. ~ source /\ \A u \in Threads : ~ token[u]
      BY <3>1, LiveHandleCounts
    <3>3. QED BY <3>2 DEF Counted
  <2>2. texts \subseteq Pushed
    BY <2>1 DEF Atomic!InSourceCall
  <2>3. texts' = {}
    BY <1>7, <2>2 DEF Overlapping!Free, Pushed
  <2>4. /\ blockFreed' /\ pc' = [pc EXCEPT ![t] = "idle"]
        /\ UNCHANGED <<Pushed, reason, borrowed, token, new>>
    BY <1>7 DEF Overlapping!Free, Pushed
  <2>5. QED BY <1>1, <2>3, <2>4
<1>8. QED
  BY <1>2, <1>3, <1>4, <1>5, <1>6, <1>7 DEF Overlapping!Next

----------------------------------------------------------------------------
(* GLib: nothing overlaps a reset *)

\* A reset is alone on the source, and between its two steps the flag is down.
Alone ==
    /\ \A t, u \in Threads : pc[t] \in {"lower", "clear"} /\ u # t => pc[u] \in {"idle", "free"}
    /\ \A t \in Threads : pc[t] = "clear" => ~ cancelled

LEMMA AloneInit == Overlapping!Init => Alone
  BY DEF Overlapping!Init, Alone

LEMMA AloneStep ==
  ASSUME Bounded, GlibTyped, Counted, Alone, Exclusive!Next
  PROVE  /\ Alone'
         /\ Exclusive!AtomicStep
         /\ Exclusive!ErasesOnlyItsOwn
<1> USE DEF Alone, Exclusive!Transition, Exclusive!memory, Exclusive!handles
<1> DEFINE flag == cancelled \/ \E t \in Threads : pc[t] = "raise"
           text == IF \E t \in Threads : pc[t] = "clear" THEN Exclusive!NoText ELSE reason
           Good == Alone' /\ Exclusive!AtomicStep /\ Exclusive!ErasesOnlyItsOwn
<1>1. pc \in [Threads -> GlibStages] /\ cancelled \in BOOLEAN
  BY DEF GlibTyped
<1>2. ASSUME NEW t \in Threads, UNCHANGED <<cancelled, reason>>,
             pc[t] \in {"idle", "free"}, pc' = [pc EXCEPT ![t] = pc'[t]],
             pc'[t] \in {"publish", "lower", "idle", "free"},
             pc'[t] = "publish" => \A u \in Threads : pc[u] \notin {"lower", "clear"},
             pc'[t] = "lower" => \A u \in Threads : pc[u] \in {"idle", "free"}
      PROVE  Good
  <2>1. \A u \in Threads \ {t} : pc'[u] = pc[u]
    BY <1>1, <1>2
  <2>2. Alone'
    BY <1>2, <2>1
  <2>3. flag' = flag /\ text' = text
    BY <1>2, <2>1
  <2>4. Exclusive!ErasesOnlyItsOwn
    BY <1>2, <2>1 DEF Exclusive!ErasesOnlyItsOwn
  <2>5. QED BY <2>2, <2>3, <2>4 DEF Exclusive!AtomicStep, Exclusive!Flag!vars
<1>3. ASSUME NEW t \in Threads,
             \/ Exclusive!CancelBegin(t) \/ Exclusive!ResetBegin(t) \/ Exclusive!Token(t)
             \/ Exclusive!ReasonUtf8(t) \/ Exclusive!TokenDestroy(t)
             \/ Exclusive!SourceDestroy(t) \/ Exclusive!Free(t)
      PROVE  Good
  <2>1. CASE Exclusive!CancelBegin(t)
    <3>1. /\ UNCHANGED <<cancelled, reason>> /\ pc[t] = "idle" /\ pc' = [pc EXCEPT ![t] = "publish"]
          /\ \A u \in Threads : pc[u] \notin {"lower", "clear"}
      BY <2>1 DEF Exclusive!CancelBegin, Exclusive!Resetting
    <3>2. QED BY <1>1, <1>2, <3>1
  <2>2. CASE Exclusive!ResetBegin(t)
    <3>1. /\ UNCHANGED <<cancelled, reason>> /\ pc[t] = "idle" /\ pc' = [pc EXCEPT ![t] = "lower"]
          /\ \A u \in Threads : pc[u] \in {"idle", "free"}
      BY <1>1, <2>2 DEF Exclusive!ResetBegin, Exclusive!InSourceCall, Exclusive!Cancelling,
                        Exclusive!Resetting, GlibStages
    <3>2. QED BY <1>1, <1>2, <3>1
  <2>3. CASE Exclusive!Token(t) \/ Exclusive!ReasonUtf8(t)
    <3>1. UNCHANGED <<cancelled, reason, pc>> /\ pc[t] = "idle" /\ pc' = [pc EXCEPT ![t] = pc'[t]]
      BY <1>1, <2>3 DEF Exclusive!Token, Exclusive!ReasonUtf8
    <3>2. QED BY <1>2, <3>1
  <2>4. CASE Exclusive!TokenDestroy(t) \/ Exclusive!SourceDestroy(t) \/ Exclusive!Free(t)
    <3>1. /\ UNCHANGED <<cancelled, reason>> /\ pc[t] \in {"idle", "free"}
          /\ pc' \in {[pc EXCEPT ![t] = "idle"], [pc EXCEPT ![t] = "free"]}
      BY <2>4 DEF Exclusive!TokenDestroy, Exclusive!SourceDestroy, Exclusive!Free,
                  Exclusive!Release
    <3>2. QED BY <1>1, <1>2, <3>1
  <2>5. QED BY <1>3, <2>1, <2>2, <2>3, <2>4
<1>4. ASSUME NEW t \in Threads, Exclusive!Publish(t) PROVE Good
  <2>1. /\ pc[t] = "publish" /\ pc'[t] = "raise" /\ reason' = new[t] /\ cancelled' = cancelled
        /\ \A u \in Threads \ {t} : pc'[u] = pc[u]
    BY <1>1, <1>4 DEF Exclusive!Publish
  <2>2. \A u \in Threads : pc[u] \notin {"lower", "clear"} /\ pc'[u] \notin {"lower", "clear"}
    BY <2>1
  <2>3. flag' = TRUE /\ text' = new[t]
    BY <2>1, <2>2
  <2>4. new[t] \in Exclusive!Texts \cup {0}
    BY DEF GlibTyped, Overlapping!NoText, Exclusive!Texts, Overlapping!Texts
  <2>5. PICK r \in Exclusive!Texts \cup {0} : r = new[t]
    BY <2>4
  <2>6. Exclusive!AtomicStep
    <3>1. Exclusive!Flag!Cancel(r)
      BY <2>3, <2>5 DEF Exclusive!Flag!Cancel
    <3>2. QED BY <3>1 DEF Exclusive!AtomicStep, Exclusive!Flag!Next
  <2>7. QED BY <2>2, <2>6 DEF Exclusive!ErasesOnlyItsOwn
<1>5. ASSUME NEW t \in Threads, Exclusive!Raise(t) PROVE Good
  <2>1. /\ pc[t] = "raise" /\ pc'[t] = "idle" /\ cancelled' = TRUE /\ reason' = reason
        /\ \A u \in Threads \ {t} : pc'[u] = pc[u]
    BY <1>1, <1>5 DEF Exclusive!Raise
  <2>2. \A u \in Threads : pc[u] \notin {"lower", "clear"} /\ pc'[u] \notin {"lower", "clear"}
    BY <2>1
  <2>3. flag' = flag /\ text' = text
    BY <2>1, <2>2
  <2>4. QED
    BY <2>2, <2>3 DEF Exclusive!ErasesOnlyItsOwn, Exclusive!AtomicStep, Exclusive!Flag!vars
<1>6. ASSUME NEW t \in Threads, Exclusive!Lower(t) PROVE Good
  <2>1. /\ pc[t] = "lower" /\ pc'[t] = "clear" /\ cancelled' = FALSE
        /\ \A u \in Threads \ {t} : pc'[u] = pc[u]
    BY <1>1, <1>6 DEF Exclusive!Lower
  <2>2. \A u \in Threads \ {t} : pc[u] \in {"idle", "free"} /\ pc'[u] \in {"idle", "free"}
    BY <2>1
  <2>3. Alone'
    BY <2>1, <2>2
  <2>4. flag' = FALSE /\ text' = 0
    BY <2>1, <2>2 DEF Exclusive!NoText
  <2>5. Exclusive!Flag!Reset
    BY <2>4 DEF Exclusive!Flag!Reset
  <2>6. Exclusive!ErasesOnlyItsOwn
    BY <2>1, <2>2 DEF Exclusive!ErasesOnlyItsOwn
  <2>7. QED BY <2>3, <2>5, <2>6 DEF Exclusive!AtomicStep, Exclusive!Flag!Next
<1>7. ASSUME NEW t \in Threads, Exclusive!Clear(t) PROVE Good
  <2>1. /\ pc[t] = "clear" /\ pc'[t] = "idle" /\ reason' = Exclusive!NoText /\ cancelled' = cancelled
        /\ \A u \in Threads \ {t} : pc'[u] = pc[u]
    BY <1>1, <1>7 DEF Exclusive!Clear
  <2>2. \A u \in Threads \ {t} : pc[u] \in {"idle", "free"} /\ pc'[u] \in {"idle", "free"}
    BY <2>1
  <2>3. ~ cancelled /\ \A u \in Threads : pc[u] # "raise" /\ pc'[u] \in {"idle", "free"}
    BY <2>1, <2>2
  <2>4. flag' = flag /\ text' = Exclusive!NoText /\ text = Exclusive!NoText
    BY <2>1, <2>3
  <2>5. QED
    BY <2>3, <2>4 DEF Exclusive!ErasesOnlyItsOwn, Exclusive!AtomicStep, Exclusive!Flag!vars
<1>8. QED
  BY <1>3, <1>4, <1>5, <1>6, <1>7 DEF Exclusive!Next

----------------------------------------------------------------------------
(* Theorems *)

IsExclusive == provider = "glib with exclusive resets"

\* The inductive invariant.
Inv ==
    /\ provider \in {"native", "glib", "glib with exclusive resets"}
    /\ Counted
    /\ IsNative => NativeInv
    /\ IsGlib => GlibTyped /\ GlibKept
    /\ IsExclusive => Alone

LEMMA InvInit == ASSUME Bounded PROVE Init => Inv
  BY NativeInit, GlibTypedInit, GlibKeptInit, AloneInit
  DEF Init, Inv, IsNative, IsGlib, IsExclusive, NativeInv

\* Whatever the callers do, GLib's block and texts are sound.
LEMMA GlibStep ==
  ASSUME Bounded, Inv, GlibNext
  PROVE  Counted' /\ GlibTyped' /\ GlibKept'
<1>1. GlibTyped /\ GlibKept /\ Counted /\ Overlapping!Next
  BY ExclusiveIsOverlapping DEF Inv, GlibNext
<1>2. QED BY <1>1, GlibTypedStep, GlibCountedStep, GlibKeptStep

LEMMA Unchanged == ASSUME Inv, UNCHANGED vars PROVE Inv'
<1>1. /\ UNCHANGED <<provider, refCount, cancelled, reason, history, texts, next, blockFreed>>
      /\ UNCHANGED <<source, pc, new, token, borrowed, lock, op, tail>>
  BY DEF vars, Overlapping!vars, Overlapping!memory, Overlapping!handles, native
<1>2. Counted'
  BY <1>1 DEF Inv, Counted, Holders, Atomic!InSourceCall
<1>3. Typed /\ LockHeld => Typed' /\ LockHeld'
  BY <1>1 DEF Typed, Atomic!TypeOK, NewIsText, LockHeld, Holding, Atomic!InSourceCall
<1>4. Kept => Kept'
  BY <1>1 DEF Kept, Pushed, Pending
<1>5. GlibTyped /\ GlibKept => GlibTyped' /\ GlibKept'
  BY <1>1 DEF GlibTyped, GlibKept, Pushed
<1>6. Alone => Alone'
  BY <1>1 DEF Alone
<1>7. QED
  BY <1>1, <1>2, <1>3, <1>4, <1>5, <1>6 DEF Inv, NativeInv, IsNative, IsGlib, IsExclusive

LEMMA InvStep == ASSUME Bounded, Inv, [NativeNext \/ GlibNext]_vars PROVE Inv'
<1>1. CASE NativeNext
  BY <1>1, NativeStep DEF NativeNext, Inv, NativeInv, IsNative, IsGlib, IsExclusive
<1>2. CASE GlibNext
  <2>1. Counted' /\ GlibTyped' /\ GlibKept' /\ provider' = provider
    BY <1>2, GlibStep DEF GlibNext
  <2>2. IsExclusive => Alone'
    BY <1>2, AloneStep DEF GlibNext, Inv, IsExclusive
  <2>3. QED
    BY <1>2, <2>1, <2>2 DEF GlibNext, Inv, IsNative, IsGlib, IsExclusive
<1>3. QED BY <1>1, <1>2, Unchanged

LEMMA Invariance == Bounded => (Spec => []Inv)
<1> SUFFICES ASSUME Bounded PROVE Spec => []Inv
  OBVIOUS
<1>1. QED BY InvInit, InvStep, PTL DEF Spec

\* No handle is ever left that points at a freed block, and no call is inside one.
THEOREM BlocksOutliveHandles == Bounded => (Spec => []BlockOutlivesHandles)
<1> SUFFICES ASSUME Bounded PROVE Spec => []BlockOutlivesHandles
  OBVIOUS
<1>1. ASSUME Inv PROVE BlockOutlivesHandles
  <2>1. Atomic!BlockOutlivesHandles
    BY <1>1, CountedKeepsBlock DEF Inv
  <2>2. Overlapping!BlockOutlivesHandles
    BY <2>1 DEF Atomic!BlockOutlivesHandles, Overlapping!BlockOutlivesHandles,
                Atomic!InSourceCall, Overlapping!InSourceCall, Overlapping!Cancelling,
                Overlapping!Resetting
  <2>3. QED BY <2>1, <2>2 DEF BlockOutlivesHandles
<1>2. QED BY <1>1, Invariance, PTL

\* What reason_utf8 hands out can be read as long as the token lives, and no overlap
\* of cancel calls loses a text: with the block, all of them are freed.
THEOREM TextsLiveExactly == Bounded => (Spec => []TextsLiveAsLongAsNeeded)
<1> SUFFICES ASSUME Bounded PROVE Spec => []TextsLiveAsLongAsNeeded
  OBVIOUS
<1>1. ASSUME Inv PROVE TextsLiveAsLongAsNeeded
  <2>1. /\ ~ blockFreed => Pushed \subseteq texts
        /\ \A t \in Threads : borrowed[t] # Overlapping!NoText => token[t] /\ borrowed[t] \in Pushed
        /\ blockFreed => texts = {}
    BY <1>1 DEF Inv, IsNative, IsGlib, NativeInv, Kept, GlibKept, Atomic!NoText, Overlapping!NoText
  <2>2. (\E t \in Threads : token[t]) => ~ blockFreed
    BY <1>1, LiveHandleCounts DEF Inv
  <2>3. QED
    BY <2>1, <2>2 DEF TextsLiveAsLongAsNeeded, Overlapping!BorrowedTextAlive,
                      Overlapping!NoTextLeaked
<1>2. QED BY <1>1, Invariance, PTL

\* For whoever reads flag and reason, every interleaving of the calls' steps is a
\* sequence of whole cancel and reset calls: under the native spin lock always, with
\* GLib when no call overlaps a reset.
THEOREM CallsLookAtomic == Bounded => (Spec => CallsAreAtomic)
<1> SUFFICES ASSUME Bounded PROVE Spec => CallsAreAtomic
  OBVIOUS
<1>1. ASSUME Inv, NativeNext PROVE Atomic!AtomicStep /\ Atomic!FlagUpWithReason
  <2>1. Atomic!AtomicStep /\ [Atomic!FlagUpWithReason]_(Atomic!vars)
    BY <1>1, AtomicSteps DEF Inv, NativeInv, NativeNext, Atomic!AtomicStep
  <2>2. UNCHANGED Atomic!vars => Atomic!FlagUpWithReason
    BY DEF Atomic!vars, Atomic!block, Atomic!FlagUpWithReason
  <2>3. QED BY <2>1, <2>2
<1>2. ASSUME Inv, GlibNext, IsExclusive
      PROVE  Exclusive!AtomicStep /\ Exclusive!ErasesOnlyItsOwn
  BY <1>2, AloneStep DEF Inv, GlibNext, IsGlib, IsExclusive
<1>3. ASSUME Inv, [NativeNext \/ GlibNext]_vars
      PROVE  [/\ IsNative => Atomic!AtomicStep /\ Atomic!FlagUpWithReason
              /\ provider = "glib with exclusive resets" =>
                     Exclusive!AtomicStep /\ Exclusive!ErasesOnlyItsOwn]_vars
  <2>1. NativeNext => ~ IsExclusive
    BY DEF NativeNext, IsNative, IsExclusive
  <2>2. GlibNext => ~ IsNative
    BY DEF GlibNext, IsNative, IsGlib
  <2>3. QED BY <1>1, <1>2, <1>3, <2>1, <2>2 DEF IsExclusive
<1>4. QED BY <1>3, Invariance, PTL DEF Spec, CallsAreAtomic

\* The native provider implements the abstract source: flag and reason change
\* together, although they are stored one after the other.
THEOREM NativeImplementsFlag == Bounded => (Atomic!Spec => Atomic!CallsAreAtomic)
<1> SUFFICES ASSUME Bounded PROVE Atomic!Spec => Atomic!CallsAreAtomic
  OBVIOUS
<1>1. Atomic!Init => Atomic!Flag!Init
  BY DEF Atomic!Init, Atomic!Flag!Init, Atomic!effective, Atomic!NoText
<1>2. NativeInv /\ [Atomic!Next]_(Atomic!vars) => [Atomic!Flag!Next]_(Atomic!Flag!vars)
  BY AtomicSteps DEF NativeInv
<1>3. QED
  BY <1>1, <1>2, NativeInit, NativeStep, PTL
  DEF Atomic!Spec, Atomic!CallsAreAtomic, Atomic!Flag!Spec

\* The GLib provider implements it too, for callers who let nothing overlap a reset.
THEOREM GlibImplementsFlag == Bounded => (Exclusive!Spec => Exclusive!CallsAreAtomic)
<1> SUFFICES ASSUME Bounded PROVE Exclusive!Spec => Exclusive!CallsAreAtomic
  OBVIOUS
<1> DEFINE I == GlibTyped /\ Counted /\ Alone
<1>1. Exclusive!Init => I /\ Exclusive!Flag!Init
  <2> SUFFICES ASSUME Exclusive!Init PROVE I /\ Exclusive!Flag!Init
    OBVIOUS
  <2>1. Overlapping!Init
    BY DEF Exclusive!Init, Overlapping!Init, Exclusive!NoText, Overlapping!NoText
  <2>2. Exclusive!Flag!Init
    BY DEF Exclusive!Init, Exclusive!Flag!Init, Exclusive!NoText
  <2>3. QED BY <2>1, <2>2, GlibTypedInit, AloneInit
<1>2. I /\ [Exclusive!Next]_(Exclusive!vars) => I' /\ [Exclusive!Flag!Next]_(Exclusive!Flag!vars)
  <2> SUFFICES ASSUME I, [Exclusive!Next]_(Exclusive!vars)
               PROVE  I' /\ [Exclusive!Flag!Next]_(Exclusive!Flag!vars)
    OBVIOUS
  <2>1. CASE Exclusive!Next
    BY <2>1, ExclusiveIsOverlapping, GlibTypedStep, GlibCountedStep, AloneStep
    DEF Exclusive!AtomicStep
  <2>2. CASE UNCHANGED Exclusive!vars
    <3>1. /\ UNCHANGED <<refCount, cancelled, reason, history, texts, next, blockFreed>>
          /\ UNCHANGED <<source, pc, new, token, borrowed>>
      BY <2>2 DEF Exclusive!vars, Exclusive!memory, Exclusive!handles
    <3>2. GlibTyped' /\ Alone'
      BY <3>1 DEF GlibTyped, Alone
    <3>3. Counted'
      BY <3>1 DEF Counted, Holders, Atomic!InSourceCall
    <3>4. UNCHANGED Exclusive!Flag!vars
      BY <3>1 DEF Exclusive!Flag!vars
    <3>5. QED BY <3>2, <3>3, <3>4
  <2>3. QED BY <2>1, <2>2
<1> HIDE DEF I
<1>3. QED
  BY <1>1, <1>2, PTL DEF Exclusive!Spec, Exclusive!CallsAreAtomic, Exclusive!Flag!Spec
----------------------------------------------------------------------------
(* Nobody waits for a lock that is nobody's *)

HeldBySomebody == lock => \E t \in Threads : Holding(t)

\* The way of a holder through its critical section, which has no loop.
Onward == {<<"readHistory", "push">>, <<"push", "reason">>, <<"reason", "flag">>,
           <<"flag", "unlock">>, <<"unlock", "idle">>}

HoldersGoOn ==
    \A t \in Threads : Holding(t) =>
        \/ pc'[t] = pc[t]
        \/ <<pc[t], pc'[t]>> \in Onward /\ (pc'[t] = "idle" <=> ~ lock')

LEMMA HoldersStep ==
  ASSUME Typed, LockHeld, HeldBySomebody, Atomic!Next
  PROVE  HeldBySomebody' /\ HoldersGoOn
<1> USE DEF Atomic!Transition, Atomic!block, Atomic!memory, Atomic!locals, Atomic!handles
<1>1. pc \in [Threads -> Atomic!Stages] /\ lock \in BOOLEAN
  BY DEF Typed, Atomic!TypeOK
\* A step of a thread that holds nothing, before or after.
<1>2. ASSUME NEW t \in Threads, ~ Holding(t), ~ Holding(t)', lock' = lock,
             \A u \in Threads \ {t} : pc'[u] = pc[u]
      PROVE  HeldBySomebody' /\ HoldersGoOn
  <2>1. \A u \in Threads : Holding(u) => u # t /\ pc'[u] = pc[u]
    BY <1>2
  <2>2. \A u \in Threads : Holding(u) => Holding(u)'
    BY <2>1 DEF Holding
  <2>3. QED BY <1>2, <2>1, <2>2 DEF HeldBySomebody, HoldersGoOn
<1>3. ASSUME NEW t \in Threads, Atomic!CancelBegin(t) \/ Atomic!ResetBegin(t)
      PROVE  HeldBySomebody' /\ HoldersGoOn
  <2>1. pc[t] = "idle" /\ pc' = [pc EXCEPT ![t] = "lock"] /\ lock' = lock
    BY <1>3 DEF Atomic!CancelBegin, Atomic!ResetBegin
  <2>2. QED BY <1>1, <1>2, <2>1 DEF Holding
<1>4. ASSUME NEW t \in Threads,
             \/ Atomic!Free(t) \/ Atomic!Token(t) \/ Atomic!ReasonUtf8(t)
             \/ Atomic!TokenDestroy(t) \/ Atomic!SourceDestroy(t)
      PROVE  HeldBySomebody' /\ HoldersGoOn
  <2>1. /\ pc[t] \in {"idle", "free"} /\ lock' = lock
        /\ pc' \in {pc, [pc EXCEPT ![t] = "free"], [pc EXCEPT ![t] = "idle"]}
    BY <1>4 DEF Atomic!Free, Atomic!Token, Atomic!ReasonUtf8, Atomic!TokenDestroy,
           Atomic!SourceDestroy, Atomic!Release
  <2>2. QED BY <1>1, <1>2, <2>1 DEF Holding
<1>5. ASSUME NEW t \in Threads, Atomic!Lock(t) PROVE HeldBySomebody' /\ HoldersGoOn
  <2>1. ~ lock /\ pc' \in {[pc EXCEPT ![t] = "reason"], [pc EXCEPT ![t] = "readHistory"]}
    BY <1>5 DEF Atomic!Lock
  <2>2. \A u \in Threads : ~ Holding(u)
    BY <2>1 DEF LockHeld
  <2>3. Holding(t)'
    BY <1>1, <2>1 DEF Holding
  <2>4. QED BY <2>2, <2>3 DEF HeldBySomebody, HoldersGoOn
<1>6. ASSUME NEW t \in Threads,
             \/ Atomic!ReadHistory(t) \/ Atomic!Push(t) \/ Atomic!StoreReason(t)
             \/ Atomic!StoreCancelled(t)
      PROVE  HeldBySomebody' /\ HoldersGoOn
  <2>1. /\ Holding(t) /\ lock' = lock
        /\ <<pc[t], pc'[t]>> \in Onward /\ pc'[t] # "idle" /\ Holding(t)'
        /\ \A u \in Threads \ {t} : pc'[u] = pc[u]
    BY <1>1, <1>6 DEF Atomic!ReadHistory, Atomic!Push, Atomic!StoreReason,
           Atomic!StoreCancelled, Holding, Onward
  <2>2. lock
    BY <2>1 DEF LockHeld
  <2>3. QED BY <2>1, <2>2 DEF HeldBySomebody, HoldersGoOn
<1>7. ASSUME NEW t \in Threads, Atomic!Unlock(t) PROVE HeldBySomebody' /\ HoldersGoOn
  <2>1. /\ Holding(t) /\ ~ lock' /\ pc'[t] = "idle" /\ <<pc[t], pc'[t]>> \in Onward
    BY <1>1, <1>7 DEF Atomic!Unlock, Holding, Onward
  <2>2. \A u \in Threads : Holding(u) => u = t
    BY <2>1 DEF LockHeld
  <2>3. QED BY <2>1, <2>2 DEF HeldBySomebody, HoldersGoOn
<1>8. QED BY <1>3, <1>4, <1>5, <1>6, <1>7 DEF Atomic!Next, Atomic!CallStep

\* The native lock is held exactly while one thread is in its critical section, and
\* no step takes that thread anywhere but on to its Unlock, five steps away at most:
\* nobody spins on a lock that no running call will give back.
THEOREM LockIsPassedOn ==
  Bounded => (Spec => /\ [](IsNative => (lock <=> \E t \in Threads : Holding(t)))
                      /\ [][IsNative => HoldersGoOn]_vars)
<1> SUFFICES ASSUME Bounded
             PROVE  Spec => /\ [](IsNative => (lock <=> \E t \in Threads : Holding(t)))
                            /\ [][IsNative => HoldersGoOn]_vars
  OBVIOUS
<1> DEFINE Held == IsNative => HeldBySomebody
<1>1. Init => Held
  BY DEF Init, Atomic!Init, HeldBySomebody, IsNative, IsGlib
<1>2. ASSUME Inv, Held, [NativeNext \/ GlibNext]_vars
      PROVE  Held' /\ [IsNative => HoldersGoOn]_vars
  <2>1. CASE NativeNext
    BY <1>2, <2>1, HoldersStep DEF NativeNext, Inv, NativeInv
  <2>2. CASE GlibNext
    BY <2>2 DEF GlibNext, IsNative, IsGlib
  <2>3. CASE UNCHANGED vars
    <3>1. UNCHANGED <<provider, pc, lock>>
      BY <2>3 DEF vars, Overlapping!vars, native
    <3>2. QED BY <1>2, <2>3, <3>1 DEF HeldBySomebody, Holding, IsNative
  <2>4. QED BY <1>2, <2>1, <2>2, <2>3
<1>3. ASSUME Inv, Held PROVE IsNative => (lock <=> \E t \in Threads : Holding(t))
  BY <1>3 DEF Inv, NativeInv, LockHeld, HeldBySomebody
<1>4. Inv /\ Held => (IsNative => (lock <=> \E t \in Threads : Holding(t)))
  BY <1>3
<1>5. Inv /\ Held /\ [NativeNext \/ GlibNext]_vars => Held' /\ [IsNative => HoldersGoOn]_vars
  BY <1>2
<1> HIDE DEF Held
<1>6. QED BY <1>1, <1>4, <1>5, Invariance, PTL DEF Spec
=============================================================================
