-------------------------- MODULE OrderPathProofs --------------------------
(***************************************************************************)
(* Proofs about an order's way to the broker, for any requests, limits,    *)
(* chains, hooks, threads, processes and times: ApprovalProviders,         *)
(* EmergencyStop, KisClient and KisTokens, each with an invariant of its   *)
(* own, and what MCOrderPath promises of them.                             *)
(***************************************************************************)
EXTENDS MCOrderPath, DecimalsProofs

-----------------------------------------------------------------------------
(* Who approves: windows, prompts and chains *)

OpenWindow == [limit : Limits, until : Int, used : Nat, revoked : BOOLEAN]
Answers == {"approve", "ok", "no"}

\* Finitely many requests ask, windows have a quota, None is none of the values.
WindowsConfigured ==
             /\ IsFiniteSet(Requests)
             /\ \A limit \in Limits : limit.orders \in Nat /\ limit.seconds \in Int
             /\ None \notin Windows /\ None \notin OpenWindow /\ None \notin Answers

ProviderTypes ==
    /\ windows \in [Windows -> OpenWindow \union {None}]
    /\ wall \in Int
    /\ asking \in [Requests -> Nat]
    /\ matched \in [Requests -> Windows \union {None}]
    /\ DOMAIN decision = Requests /\ DOMAIN asked = Requests /\ DOMAIN box = Requests
    /\ readers \in Seq(Requests)
    /\ typed \in Seq(Answers)

\* A thread that waits for a line waits once, and its call has none yet.
Waiting ==
    /\ \A i, j \in 1 .. Len(readers) : readers[i] = readers[j] => i = j
    /\ \A i \in 1 .. Len(readers) : box[readers[i]] = None

Covers(w, e) ==
    /\ windows[w].limit.symbol \in {None, Ask[e].symbol}
    /\ Ask[e].quantity <= windows[w].limit.quantity
    /\ Ask[e].live => windows[w].limit.live
    /\ asked[e] < windows[w].until

\* What was found stays open and covers the request, which has begun.
MatchesCover ==
    \A e \in Requests :
        matched[e] # None => matched[e] \in Providers!Open /\ Covers(matched[e], e) /\ asking[e] # 0

\* Each provider approves for its own reason only.
Reasons ==
    \A e \in Requests :
        decision[e].approved =>
            \/ decision[e].by = "pre_approval" /\ matched[e] # None
            \/ decision[e].by = "auto_approve" /\ ~Ask[e].live
            \/ decision[e].by = "cli_human" /\ box[e] = "approve"

ProviderInv == ProviderTypes /\ Waiting /\ MatchesCover /\ Reasons /\ Providers!QuotaHolds

\* Both modules count alike.
LEMMA ProvidersCount == \A S : Providers!Cardinality(S) = Cardinality(S)
BY DEF Providers!Cardinality, Cardinality

\* The counts stay as long as neither the windows nor their approvals change.
LEMMA QuotaKept ==
    ASSUME Providers!QuotaHolds, UNCHANGED windows,
           \A w \in Windows : Providers!ApprovedBy(w)' = Providers!ApprovedBy(w)
    PROVE  Providers!QuotaHolds'
  BY DEF Providers!QuotaHolds, Providers!Open

\* A refusal forgets the match and goes on to the next provider or to the end.
LEMMA RefusedKeeps ==
    ASSUME ProviderInv, NEW e \in Requests, NEW by, ~Providers!Decided(e), asking[e] # 0, Providers!Refused(e, by),
           UNCHANGED <<windows, wall, readers, typed, box>>
    PROVE  ProviderInv'
<1> USE DEF ProviderInv
<1>1. /\ matched' = [matched EXCEPT ![e] = None]
      /\ \A f \in Requests \ {e} : UNCHANGED <<asking[f], asked[f], decision[f]>>
      /\ ~decision'[e].approved
      /\ asking' \in [Requests -> Nat] /\ DOMAIN asked' = Requests /\ DOMAIN decision' = Requests
  <2>1. CASE /\ asking' = [asking EXCEPT ![e] = @ + 1] /\ asked' = [asked EXCEPT ![e] = wall]
             /\ UNCHANGED decision
    BY <2>1 DEF Providers!Refused, Providers!Decided, Providers!Undecided, ProviderTypes
  <2>2. CASE /\ decision' = [decision EXCEPT ![e] = [approved |-> FALSE, by |-> by]]
             /\ UNCHANGED <<asking, asked>>
    BY <2>2 DEF Providers!Refused, ProviderTypes
  <2> QED
    BY <2>1, <2>2 DEF Providers!Refused
<1>2. ProviderTypes'
  BY <1>1 DEF ProviderTypes
<1>3. Waiting'
  BY DEF Waiting
<1>4. MatchesCover'
  BY <1>1 DEF MatchesCover, ProviderTypes, Covers, Providers!Open
<1>5. Reasons'
  BY <1>1 DEF Reasons, ProviderTypes
<1>6. ASSUME NEW w \in Windows
      PROVE  Providers!ApprovedBy(w)' = Providers!ApprovedBy(w)
  <2>1. ~decision[e].approved
    BY DEF Providers!Decided, Providers!Undecided
  <2> QED
    BY <1>1, <2>1 DEF Providers!ApprovedBy, ProviderTypes
<1> QED
  BY <1>2, <1>3, <1>4, <1>5, <1>6, QuotaKept

\* An approval by the operator or by itself spends no window.
LEMMA ApprovedKeeps ==
    ASSUME ProviderInv, NEW e \in Requests, NEW by, ~Providers!Decided(e), Providers!Approved(e, by),
           \/ by = "auto_approve" /\ ~Ask[e].live
           \/ by = "cli_human" /\ box[e] = "approve",
           UNCHANGED <<windows, wall, asking, asked, matched, readers, typed, box>>
    PROVE  ProviderInv'
<1> USE DEF ProviderInv, Providers!Approved
<1>1. ProviderTypes' /\ Waiting'
  BY DEF ProviderTypes, Waiting
<1>2. MatchesCover'
  BY DEF MatchesCover, ProviderTypes, Covers, Providers!Open
<1>3. Reasons'
  BY DEF Reasons, ProviderTypes
<1>4. ASSUME NEW w \in Windows
      PROVE  Providers!ApprovedBy(w)' = Providers!ApprovedBy(w)
  BY DEF Providers!ApprovedBy, ProviderTypes, Providers!Decided, Providers!Undecided
<1> QED
  BY <1>1, <1>2, <1>3, <1>4, QuotaKept

\* Where a provider is asked, the request has begun and is not decided.
LEMMA AskedIsOpen ==
    ASSUME NEW e, Providers!Provider(e) # "none"
    PROVE  asking[e] # 0 /\ ~Providers!Decided(e)
  BY DEF Providers!Provider

\* A window spends one of its orders for the request that it approves.
LEMMA ConsumeKeeps ==
    ASSUME WindowsConfigured, ProviderInv, NEW e \in Requests, Providers!Consume(e)
    PROVE  ProviderInv'
<1> PICK w : w = matched[e]
  OBVIOUS
<1>1. asking[e] # 0 /\ ~Providers!Decided(e) /\ w # None
  BY AskedIsOpen DEF Providers!Consume
<1>2. w \in Windows /\ w \in Providers!Open /\ Covers(w, e)
  BY <1>1 DEF ProviderInv, ProviderTypes, MatchesCover, Providers!Open
<1>3. CASE ~Providers!Spendable(w) /\ Providers!Refused(e, "pre_approval") /\ UNCHANGED windows
  BY <1>1, <1>3, RefusedKeeps DEF Providers!Consume, Providers!prompt
<1>4. CASE /\ Providers!Spendable(w)
           /\ windows' = [windows EXCEPT ![w].used = @ + 1]
           /\ Providers!Approved(e, "pre_approval")
           /\ UNCHANGED <<asking, asked, matched>>
  <2> USE DEF ProviderInv, Providers!Approved
  <2>1. UNCHANGED <<wall, readers, typed, box>>
    BY DEF Providers!Consume, Providers!prompt
  <2>2. /\ windows[w] \in OpenWindow /\ windows[w] # None
        /\ windows'[w] = [windows[w] EXCEPT !.used = @ + 1]
        /\ windows'[w] \in OpenWindow
        /\ \A v \in Windows \ {w} : windows'[v] = windows[v]
        /\ windows' \in [Windows -> OpenWindow \union {None}]
    <3>1. windows[w] \in OpenWindow /\ windows[w] # None
      BY <1>2 DEF ProviderTypes, Providers!Open
    <3>2. [windows[w] EXCEPT !.used = @ + 1] \in OpenWindow
      BY <3>1 DEF OpenWindow
    <3>3. /\ windows'[w] = [windows[w] EXCEPT !.used = @ + 1]
          /\ \A v \in Windows \ {w} : windows'[v] = windows[v]
          /\ DOMAIN windows' = Windows
      BY <1>2, <1>4 DEF ProviderTypes
    <3>4. windows' \in [Windows -> OpenWindow \union {None}]
      BY <1>2, <1>4, <3>2 DEF ProviderTypes
    <3> QED
      BY <3>1, <3>2, <3>3, <3>4
  <2>3. windows'[w] # None
    BY <2>2 DEF WindowsConfigured
  <2>4. Providers!Open' = Providers!Open
    BY <1>2, <2>2, <2>3 DEF Providers!Open
  <2>5. \A v \in Windows : windows[v] # None => /\ windows'[v].limit = windows[v].limit
                                               /\ windows'[v].until = windows[v].until
    BY <2>2 DEF OpenWindow
  <2>6. ProviderTypes' /\ Waiting'
    BY <1>4, <2>1, <2>2 DEF ProviderTypes, Waiting
  <2>7. MatchesCover'
    BY <1>4, <2>4, <2>5 DEF MatchesCover, ProviderTypes, Covers, Providers!Open
  <2>8. Reasons'
    BY <1>1, <1>4, <2>1 DEF Reasons, ProviderTypes
  <2>9. /\ e \notin Providers!ApprovedBy(w) /\ Providers!ApprovedBy(w)' = Providers!ApprovedBy(w) \union {e}
        /\ \A v \in Windows \ {w} : Providers!ApprovedBy(v)' = Providers!ApprovedBy(v)
    BY <1>1, <1>4
       DEF Providers!ApprovedBy, ProviderTypes, Providers!Decided, Providers!Undecided
  <2>10. Cardinality(Providers!ApprovedBy(w)') = Cardinality(Providers!ApprovedBy(w)) + 1
    <3>1. IsFiniteSet(Providers!ApprovedBy(w))
      BY FS_Subset DEF WindowsConfigured, Providers!ApprovedBy
    <3> QED
      BY <2>9, <3>1, FS_AddElement
  <2>11. ASSUME NEW v \in Providers!Open
         PROVE  /\ windows'[v].used = Cardinality(Providers!ApprovedBy(v)')
                /\ windows'[v].used <= windows'[v].limit.orders
    <3>1. CASE v = w
      <4>1. windows'[w].used = windows[w].used + 1
        BY <2>2 DEF OpenWindow
      <4>2. windows[w].used < windows[w].limit.orders
        BY <1>4 DEF Providers!Spendable
      <4>3. windows[w].used \in Nat /\ windows[w].limit.orders \in Nat
        BY <2>2 DEF OpenWindow, WindowsConfigured
      <4>4. windows[w].used = Cardinality(Providers!ApprovedBy(w)) /\ windows'[w].limit = windows[w].limit
        BY <1>2, <2>2, <2>5, ProvidersCount DEF Providers!QuotaHolds
      <4> QED
        BY <2>10, <3>1, <4>1, <4>2, <4>3, <4>4
    <3>2. CASE v # w
      BY <2>2, <2>9, <3>2, ProvidersCount DEF Providers!QuotaHolds, Providers!Open
    <3> QED
      BY <3>1, <3>2
  <2>12. Providers!QuotaHolds'
    BY <2>4, <2>11, ProvidersCount DEF Providers!QuotaHolds
  <2> QED
    BY <2>6, <2>7, <2>8, <2>12
<1> QED
  BY <1>3, <1>4 DEF Providers!Consume

\* A new window covers nothing yet and has approved nothing.
LEMMA AddWindowKeeps ==
    ASSUME WindowsConfigured, ProviderInv, NEW w \in Windows, NEW limit \in Limits, Providers!AddWindow(w, limit)
    PROVE  ProviderInv'
<1> USE DEF ProviderInv, Providers!AddWindow, Providers!prompt
<1>1. /\ windows'[w] \in OpenWindow /\ windows'[w].limit = limit /\ windows'[w].used = 0
      /\ \A v \in Windows \ {w} : windows'[v] = windows[v]
      /\ windows' \in [Windows -> OpenWindow \union {None}]
  BY DEF ProviderTypes, OpenWindow, WindowsConfigured
<1>2. w \notin Providers!Open /\ windows'[w] # None /\ Providers!Open' = Providers!Open \union {w}
  BY <1>1 DEF Providers!Open, WindowsConfigured
<1>3. ProviderTypes' /\ Waiting' /\ Reasons'
  BY <1>1 DEF ProviderTypes, Waiting, Reasons
<1>4. MatchesCover'
  BY <1>1, <1>2 DEF MatchesCover, ProviderTypes, Covers, Providers!Open
<1>5. Providers!ApprovedBy(w)' = {} /\ \A v \in Windows : Providers!ApprovedBy(v)' = Providers!ApprovedBy(v)
  BY <1>2 DEF Providers!ApprovedBy, ProviderTypes, Reasons, MatchesCover, WindowsConfigured
<1>6. limit.orders \in Nat
  BY DEF WindowsConfigured
<1>7. ASSUME NEW v \in Providers!Open'
      PROVE  /\ windows'[v].used = Cardinality(Providers!ApprovedBy(v)')
             /\ windows'[v].used <= windows'[v].limit.orders
  <2>1. CASE v = w
    BY <1>1, <1>5, <1>6, <2>1, FS_EmptySet
  <2>2. CASE v # w
    BY <1>1, <1>2, <1>5, <2>2, ProvidersCount DEF Providers!QuotaHolds, Providers!Open
  <2> QED
    BY <2>1, <2>2
<1>8. Providers!QuotaHolds'
  BY <1>7, ProvidersCount DEF Providers!QuotaHolds
<1> QED
  BY <1>3, <1>4, <1>8

\* Revoking changes neither what a window covers nor what it has spent.
LEMMA RevokeKeeps ==
    ASSUME WindowsConfigured, ProviderInv, NEW W \in SUBSET Providers!Open, Providers!Revoke(W)
    PROVE  ProviderInv'
<1> USE DEF ProviderInv, Providers!Revoke, Providers!prompt
<1>1. \A w \in Windows :
          /\ windows[w] \in OpenWindow =>
                /\ windows'[w] \in OpenWindow
                /\ windows'[w].limit = windows[w].limit /\ windows'[w].until = windows[w].until
                /\ windows'[w].used = windows[w].used
          /\ windows[w] = None => windows'[w] = None
  BY DEF ProviderTypes, OpenWindow, Providers!Open
<1>2. windows' \in [Windows -> OpenWindow \union {None}]
  <2>1. \A w \in Windows : windows'[w] \in OpenWindow \union {None}
    BY <1>1 DEF ProviderTypes
  <2> QED
    BY <2>1
<1>3. Providers!Open' = Providers!Open
  BY <1>1 DEF Providers!Open, ProviderTypes, WindowsConfigured
<1>4. ProviderTypes' /\ Waiting' /\ Reasons'
  BY <1>2 DEF ProviderTypes, Waiting, Reasons
<1>5. MatchesCover'
  <2>1. \A w \in Providers!Open : /\ windows'[w].limit = windows[w].limit
                                  /\ windows'[w].until = windows[w].until
    BY <1>1 DEF Providers!Open, ProviderTypes
  <2> QED
    BY <1>3, <2>1 DEF MatchesCover, Covers
<1>6. \A w \in Windows : Providers!ApprovedBy(w)' = Providers!ApprovedBy(w)
  BY DEF Providers!ApprovedBy
<1>7. Providers!QuotaHolds'
  BY <1>1, <1>3, <1>6 DEF Providers!QuotaHolds, Providers!Open, ProviderTypes
<1> QED
  BY <1>4, <1>5, <1>7

\* A reader takes the line for the call that it belongs to, and is gone.
LEMMA ReaderKeeps ==
    ASSUME WindowsConfigured, ProviderInv, Providers!ReaderTakes
    PROVE  ProviderInv'
<1> USE DEF ProviderInv, Providers!ReaderTakes
<1> DEFINE e == readers[1]
<1>1. /\ Len(readers) >= 1 /\ e \in Requests /\ Head(readers) = e
      /\ readers' \in Seq(Requests) /\ Len(readers') + 1 = Len(readers)
      /\ \A i \in 1 .. Len(readers') : readers'[i] = readers[i + 1]
      /\ typed' \in Seq(Answers)
  BY DEF ProviderTypes
<1>2. /\ DOMAIN box' = Requests
      /\ \A f \in Requests \ {e} : box'[f] = box[f]
  BY <1>1 DEF ProviderTypes
<1>3. ProviderTypes'
  BY <1>1, <1>2 DEF ProviderTypes
<1>4. Waiting'
  <2>1. Len(readers) \in Nat /\ Len(readers') \in Nat
    BY <1>1 DEF ProviderTypes
  <2>2. ASSUME NEW i \in 1 .. Len(readers')
        PROVE  i + 1 \in 1 .. Len(readers) /\ readers'[i] \in Requests \ {e}
    BY <1>1, <2>1, <2>2 DEF Waiting, ProviderTypes
  <2> QED
    BY <1>1, <1>2, <2>1, <2>2 DEF Waiting
<1>5. MatchesCover'
  BY DEF MatchesCover, Covers, Providers!Open
<1>6. box[e] = None
  BY <1>1 DEF Waiting
<1>7. Reasons'
  BY <1>2, <1>6 DEF Reasons, WindowsConfigured, Answers
<1>8. \A w \in Windows : Providers!ApprovedBy(w)' = Providers!ApprovedBy(w)
  BY DEF Providers!ApprovedBy
<1> QED
  BY <1>3, <1>4, <1>5, <1>7, <1>8, QuotaKept

\* A call shows its prompt once, so its reader waits in one place.
LEMMA ShowPromptKeeps ==
    ASSUME ProviderInv, NEW e \in Requests, Providers!ShowPrompt(e)
    PROVE  ProviderInv'
<1> USE DEF ProviderInv, Providers!ShowPrompt
<1>1. /\ \A i \in 1 .. Len(readers) : readers[i] # e
      /\ box[e] = None
  BY DEF Providers!Fresh, Providers!Prompting, Providers!Range, ProviderTypes
<1>2. /\ readers' \in Seq(Requests) /\ Len(readers') = Len(readers) + 1
      /\ \A i \in 1 .. Len(readers) : readers'[i] = readers[i]
      /\ readers'[Len(readers) + 1] = e
  BY DEF ProviderTypes
<1>3. Waiting'
  <2>1. Len(readers) \in Nat
    BY DEF ProviderTypes
  <2> QED
    BY <1>1, <1>2, <2>1 DEF Waiting
<1>4. ProviderTypes' /\ MatchesCover' /\ Reasons'
  BY <1>2 DEF ProviderTypes, MatchesCover, Covers, Providers!Open, Reasons
<1>5. \A w \in Windows : Providers!ApprovedBy(w)' = Providers!ApprovedBy(w)
  BY DEF Providers!ApprovedBy
<1> QED
  BY <1>3, <1>4, <1>5, QuotaKept

\* What is found is open and covers the request at the time that it read.
LEMMA FindKeeps ==
    ASSUME WindowsConfigured, ProviderInv, NEW e \in Requests, Providers!FindMatchingWindow(e)
    PROVE  ProviderInv'
<1> DEFINE candidates == {w \in Providers!Open : Providers!Matches(w, e)}
<1>1. asking[e] # 0 /\ ~Providers!Decided(e) /\ matched[e] = None
  BY AskedIsOpen DEF Providers!FindMatchingWindow
<1>2. CASE Providers!Refused(e, "pre_approval")
  BY <1>1, <1>2, RefusedKeeps DEF Providers!FindMatchingWindow, Providers!prompt
<1>3. ASSUME NEW w \in candidates, matched' = [matched EXCEPT ![e] = w],
             UNCHANGED <<asking, asked, decision>>
      PROVE  ProviderInv'
  <2> USE DEF ProviderInv, Providers!FindMatchingWindow, Providers!prompt
  <2>1. w \in Windows /\ w \in Providers!Open /\ Covers(w, e)
    BY DEF Providers!Open, Providers!Matches, Covers
  <2>2. ProviderTypes' /\ Waiting'
    BY <1>3, <2>1 DEF ProviderTypes, Waiting
  <2>3. MatchesCover'
    BY <1>1, <1>3, <2>1 DEF MatchesCover, ProviderTypes, Covers, Providers!Open
  <2>4. ~decision[e].approved
    BY <1>1 DEF Providers!Decided, Providers!Undecided
  <2>5. Reasons'
    BY <1>3, <2>4 DEF Reasons, ProviderTypes
  <2>6. \A v \in Windows : Providers!ApprovedBy(v)' = Providers!ApprovedBy(v)
    BY <1>3, <2>4 DEF Providers!ApprovedBy, ProviderTypes
  <2> QED
    BY <2>2, <2>3, <2>5, <2>6, QuotaKept
<1> QED
  BY <1>2, <1>3 DEF Providers!FindMatchingWindow

\* Every step of the composite, its providers and the operator keeps it.
LEMMA ProviderInvStep ==
    ASSUME WindowsConfigured, ProviderInv, [Providers!Next]_(Providers!vars)
    PROVE  ProviderInv'
<1>1. ASSUME NEW e \in Requests, Providers!Begin(e)
      PROVE  ProviderInv'
  <2> USE <1>1 DEF ProviderInv, Providers!Begin, Providers!prompt
  <2>1. ProviderTypes' /\ Waiting' /\ Reasons'
    BY DEF ProviderTypes, Waiting, Reasons
  <2>2. MatchesCover'
    BY DEF MatchesCover, ProviderTypes, Covers, Providers!Open
  <2>3. \A w \in Windows : Providers!ApprovedBy(w)' = Providers!ApprovedBy(w)
    BY DEF Providers!ApprovedBy
  <2> QED
    BY <2>1, <2>2, <2>3, QuotaKept
<1>2. ASSUME NEW e \in Requests, Providers!AutoApprove(e) \/ Providers!DenyAll(e) \/ Providers!Raises(e)
      PROVE  ProviderInv'
  <2>1. asking[e] # 0 /\ ~Providers!Decided(e)
    BY <1>2, AskedIsOpen DEF Providers!AutoApprove, Providers!DenyAll, Providers!Raises
  <2>2. UNCHANGED <<windows, wall, readers, typed, box>>
    BY <1>2 DEF Providers!AutoApprove, Providers!DenyAll, Providers!Raises, Providers!prompt
  <2>3. CASE \E by : Providers!Refused(e, by)
    BY <2>1, <2>2, <2>3, RefusedKeeps
  <2>4. CASE ~Ask[e].live /\ Providers!Approved(e, "auto_approve") /\ UNCHANGED <<asking, asked, matched>>
    BY <2>1, <2>2, <2>4, ApprovedKeeps
  <2> QED
    BY <1>2, <2>3, <2>4 DEF Providers!AutoApprove, Providers!DenyAll, Providers!Raises
<1>3. ASSUME NEW e \in Requests, Providers!Classify(e) \/ Providers!GivesUp(e)
      PROVE  ProviderInv'
  <2>1. asking[e] # 0 /\ ~Providers!Decided(e)
    BY <1>3, AskedIsOpen DEF Providers!Classify, Providers!GivesUp
  <2>2. UNCHANGED <<windows, wall, readers, typed, box>>
    BY <1>3 DEF Providers!Classify, Providers!GivesUp, Providers!prompt
  <2>3. CASE Providers!Refused(e, "cli_human")
    BY <2>1, <2>2, <2>3, RefusedKeeps
  <2>4. CASE Providers!SaysYes(box[e]) /\ Providers!Approved(e, "cli_human") /\ UNCHANGED <<asking, asked, matched>>
    BY <2>1, <2>2, <2>4, ApprovedKeeps DEF Providers!SaysYes
  <2> QED
    BY <1>3, <2>3, <2>4 DEF Providers!Classify, Providers!GivesUp
<1>4. ASSUME NEW e \in Requests, Providers!FindMatchingWindow(e) \/ Providers!Consume(e) \/ Providers!ShowPrompt(e)
      PROVE  ProviderInv'
  BY <1>4, FindKeeps, ConsumeKeeps, ShowPromptKeeps
<1>5. ASSUME NEW w \in Windows, NEW limit \in Limits, Providers!AddWindow(w, limit)
      PROVE  ProviderInv'
  BY <1>5, AddWindowKeeps
<1>6. CASE Providers!Revoke(Providers!Open) \/ \E w \in Providers!Open : Providers!Revoke({w})
  <2>1. \A w \in Providers!Open : {w} \in SUBSET Providers!Open
    OBVIOUS
  <2> QED
    BY <1>6, <2>1, RevokeKeeps
<1>7. ASSUME NEW says \in Answers, Providers!TypeLine(says)
      PROVE  ProviderInv'
  <2> USE <1>7 DEF ProviderInv, Providers!TypeLine
  <2>1. typed' \in Seq(Answers)
    BY DEF ProviderTypes
  <2>2. ProviderTypes' /\ Waiting' /\ Reasons' /\ MatchesCover'
    BY <2>1 DEF ProviderTypes, Waiting, Reasons, MatchesCover, Covers, Providers!Open
  <2>3. \A w \in Windows : Providers!ApprovedBy(w)' = Providers!ApprovedBy(w)
    BY DEF Providers!ApprovedBy
  <2> QED
    BY <2>2, <2>3, QuotaKept
<1>8. CASE Providers!Tick \/ UNCHANGED Providers!vars
  <2>1. UNCHANGED <<windows, asking, asked, matched, decision, readers, typed, box>>
    BY <1>8 DEF Providers!Tick, Providers!vars, Providers!prompt
  <2>2. ProviderTypes'
    BY <1>8, <2>1 DEF Providers!Tick, Providers!vars, ProviderInv, ProviderTypes
  <2>3. Waiting' /\ Reasons' /\ MatchesCover'
    BY <2>1 DEF ProviderInv, Waiting, Reasons, MatchesCover, Covers, Providers!Open
  <2>4. \A w \in Windows : Providers!ApprovedBy(w)' = Providers!ApprovedBy(w)
    BY <2>1 DEF Providers!ApprovedBy
  <2> QED
    BY <2>1, <2>2, <2>3, <2>4, QuotaKept DEF ProviderInv
<1> QED
  BY <1>1, <1>2, <1>3, <1>4, <1>5, <1>6, <1>7, <1>8, ReaderKeeps DEF Providers!Next, Answers

\* It holds at the start and every step keeps it.
LEMMA ProviderInvHolds == ASSUME WindowsConfigured PROVE Providers!Spec => []ProviderInv
<1>1. ASSUME Providers!Init
      PROVE  ProviderInv
  <2>1. ProviderTypes /\ Waiting
    BY <1>1 DEF Providers!Init, ProviderTypes, Waiting
  <2>2. MatchesCover /\ Reasons
    BY <1>1 DEF Providers!Init, MatchesCover, Reasons, Providers!Undecided
  <2>3. Providers!QuotaHolds
    BY <1>1 DEF Providers!Init, Providers!QuotaHolds, Providers!Open
  <2> QED
    BY <2>1, <2>2, <2>3 DEF ProviderInv
<1>2. ProviderInv /\ [Providers!Next]_(Providers!vars) => ProviderInv'
  BY ProviderInvStep
<1> QED
  BY <1>1, <1>2, PTL DEF Providers!Spec

\* approval_preapproval.py: for any number of requests at once, a window counts
\* every order it approves and approves no more than its quota.
THEOREM QuotaHoldsAlways == ASSUME WindowsConfigured PROVE Providers!Spec => []Providers!QuotaHolds
  BY ProviderInvHolds, PTL DEF ProviderInv

\* A window approves only the symbol, size, environment and time it was opened
\* for, although it is matched and spent in two steps.
THEOREM WindowCoversAlways == ASSUME WindowsConfigured PROVE Providers!Spec => []Providers!WindowCovers
<1>1. ASSUME WindowsConfigured, ProviderInv
      PROVE  Providers!WindowCovers
  BY <1>1
     DEF ProviderInv, MatchesCover, Covers, Providers!WindowCovers, Providers!ApprovedBy,
         Providers!Open, WindowsConfigured
<1> QED
  BY <1>1, ProviderInvHolds, PTL

\* No live order passes without a window for live orders or a written consent,
\* in any chain of providers and after any number of late answers.
THEOREM LiveNeedsConsentAlways == ASSUME WindowsConfigured PROVE Providers!Spec => []Providers!LiveNeedsConsent
<1>1. ProviderInv => Providers!LiveNeedsConsent
  BY DEF ProviderInv, MatchesCover, Reasons, Covers, Providers!LiveNeedsConsent
<1> QED
  BY <1>1, ProviderInvHolds, PTL

\* No step spends a window that was revoked before it.
THEOREM RevokedIsFinalAlways == ASSUME WindowsConfigured PROVE Providers!Spec => Providers!RevokedIsFinal
<1> DEFINE Final == \A w \in Providers!Open : windows[w].revoked => windows'[w].used = windows[w].used
<1>1. ASSUME WindowsConfigured, ProviderInv, [Providers!Next]_(Providers!vars)
      PROVE  [Final]_(Providers!vars)
  <2>1. ASSUME NEW e \in Requests, Providers!Consume(e)
        PROVE  Final
    BY <1>1, <2>1
       DEF Providers!Consume, Providers!Spendable, ProviderInv, ProviderTypes,
           Providers!Open, OpenWindow
  <2>2. ASSUME NEW w \in Windows, NEW limit \in Limits, Providers!AddWindow(w, limit)
        PROVE  Final
    BY <1>1, <2>2 DEF Providers!AddWindow, ProviderInv, ProviderTypes, Providers!Open
  <2>3. ASSUME NEW W, Providers!Revoke(W)
        PROVE  Final
    BY <1>1, <2>3 DEF Providers!Revoke, ProviderInv, ProviderTypes, Providers!Open, OpenWindow
  <2>4. CASE UNCHANGED windows
    BY <2>4
  <2>5. ASSUME NEW e \in Requests,
               \/ Providers!Begin(e) \/ Providers!AutoApprove(e) \/ Providers!DenyAll(e) \/ Providers!Raises(e)
               \/ Providers!FindMatchingWindow(e) \/ Providers!ShowPrompt(e) \/ Providers!Classify(e) \/ Providers!GivesUp(e)
        PROVE  UNCHANGED windows
    BY <2>5
       DEF Providers!Begin, Providers!AutoApprove, Providers!DenyAll, Providers!Raises,
           Providers!FindMatchingWindow, Providers!ShowPrompt,
                Providers!Classify, Providers!GivesUp
  <2>6. ASSUME Providers!ReaderTakes \/ Providers!Tick \/ \E says \in Answers : Providers!TypeLine(says)
        PROVE  UNCHANGED windows
    BY <2>6 DEF Providers!ReaderTakes, Providers!Tick, Providers!TypeLine
  <2> QED
    BY <1>1, <2>1, <2>2, <2>3, <2>4, <2>5, <2>6 DEF Providers!Next, Answers
<1> QED
  BY <1>1, ProviderInvHolds, PTL DEF Providers!Spec, Providers!RevokedIsFinal

\* A request is at one of its providers, and what decided it has a name.
Named == {"nobody", "composite", "pre_approval", "auto_approve", "deny_all", "cli_human"}
InChain ==
    /\ Len(chain) \in Nat /\ Len(chain) >= 1
    /\ \A e \in Requests : asking[e] <= Len(chain) /\ decision[e].by \in Named

\* A composite without providers is refused when it is built
\* (approval_composite.py:51).
SomeoneIsAsked == \A c \in Chains : Len(c) \in Nat /\ Len(c) >= 1

\* A refusal moves on only where there is a next provider.
LEMMA InChainStep ==
    ASSUME WindowsConfigured, ProviderInv, InChain, [Providers!Next]_(Providers!vars)
    PROVE  InChain'
<1> USE DEF ProviderInv, ProviderTypes, InChain
<1>1. ASSUME NEW e \in Requests, NEW by \in Named, Providers!Refused(e, by), UNCHANGED chain
      PROVE  InChain'
  <2>1. CASE /\ asking[e] < Len(chain) /\ asking' = [asking EXCEPT ![e] = @ + 1]
             /\ UNCHANGED decision
    BY <1>1, <2>1
  <2>2. CASE /\ decision' = [decision EXCEPT ![e] = [approved |-> FALSE, by |-> by]]
             /\ UNCHANGED asking
    BY <1>1, <2>2
  <2> QED
    BY <1>1, <2>1, <2>2 DEF Providers!Refused
<1>2. ASSUME NEW e \in Requests, NEW by \in Named, Providers!Approved(e, by), UNCHANGED <<asking, chain>>
      PROVE  InChain'
  BY <1>2 DEF Providers!Approved
<1>3. ASSUME NEW e \in Requests, Providers!Begin(e)
      PROVE  InChain'
  BY <1>3 DEF Providers!Begin
<1>4. ASSUME NEW e \in Requests, Providers!AutoApprove(e) \/ Providers!DenyAll(e) \/ Providers!Raises(e)
      PROVE  InChain'
  BY <1>1, <1>2, <1>4 DEF Providers!AutoApprove, Providers!DenyAll, Providers!Raises, Named
<1>5. ASSUME NEW e \in Requests, Providers!FindMatchingWindow(e)
      PROVE  InChain'
  <2>1. UNCHANGED chain /\ (Providers!Refused(e, "pre_approval") \/ UNCHANGED <<asking, decision>>)
    BY <1>5 DEF Providers!FindMatchingWindow
  <2>2. CASE UNCHANGED <<asking, decision, chain>>
    BY <2>2
  <2> QED
    BY <1>1, <2>1, <2>2 DEF Named
<1>6. ASSUME NEW e \in Requests, Providers!Consume(e)
      PROVE  InChain'
  <2>1. /\ UNCHANGED chain
        /\ \/ Providers!Refused(e, "pre_approval")
           \/ Providers!Approved(e, "pre_approval") /\ UNCHANGED asking
    BY <1>6 DEF Providers!Consume
  <2> QED
    BY <1>1, <1>2, <2>1 DEF Named
<1>7. ASSUME NEW e \in Requests, Providers!Classify(e) \/ Providers!GivesUp(e)
      PROVE  InChain'
  BY <1>1, <1>2, <1>7 DEF Providers!Classify, Providers!GivesUp, Named
<1>8. ASSUME NEW e \in Requests, Providers!ShowPrompt(e)
      PROVE  InChain'
  BY <1>8 DEF Providers!ShowPrompt
<1>9. ASSUME NEW w \in Windows, NEW limit \in Limits, Providers!AddWindow(w, limit)
      PROVE  InChain'
  BY <1>9 DEF Providers!AddWindow
<1>10. ASSUME NEW W, Providers!Revoke(W)
       PROVE  InChain'
  BY <1>10 DEF Providers!Revoke
<1>11. ASSUME Providers!ReaderTakes \/ Providers!Tick \/ UNCHANGED Providers!vars \/ \E says \in Answers : Providers!TypeLine(says)
       PROVE  InChain'
  BY <1>11
     DEF Providers!ReaderTakes, Providers!Tick, Providers!TypeLine, Providers!vars,
         Providers!prompt
<1> QED
  BY <1>3, <1>4, <1>5, <1>6, <1>7, <1>8, <1>9, <1>10, <1>11 DEF Providers!Next, Answers

\* All that the run of the desk says of the approvals, for any windows, chains
\* of providers and answers.
THEOREM ApprovalsAreCoveredAlways ==
    ASSUME WindowsConfigured, SomeoneIsAsked PROVE Providers!Spec => []Providers!ApprovalsAreCovered
<1>1. Providers!Init => InChain
  BY DEF Providers!Init, InChain, SomeoneIsAsked, Providers!Undecided, Named
<1>2. ProviderInv /\ InChain /\ [Providers!Next]_(Providers!vars) => InChain'
  BY InChainStep
<1>3. ProviderInv /\ InChain => Providers!TypeOK
  <2> SUFFICES ASSUME ProviderInv, InChain PROVE Providers!TypeOK
    OBVIOUS
  <2>1. ASSUME NEW w \in Windows, windows[w] # None
        PROVE  windows[w].limit \in Limits /\ windows[w].used \in 0 .. windows[w].limit.orders
    <3>1. windows[w] \in OpenWindow /\ windows[w].used <= windows[w].limit.orders
      BY <2>1 DEF ProviderInv, ProviderTypes, Providers!QuotaHolds, Providers!Open
    <3> QED
      BY <3>1 DEF OpenWindow, WindowsConfigured
  <2>2. ASSUME NEW e \in Requests
        PROVE  asking[e] \in 0 .. Len(chain) /\ matched[e] \in Windows \union {None}
    BY DEF ProviderInv, ProviderTypes, InChain
  <2> QED
    BY <2>1, <2>2 DEF InChain, Named, Providers!TypeOK
<1> QED
  BY <1>1, <1>2, <1>3, ProviderInvHolds, QuotaHoldsAlways, WindowCoversAlways,
     LiveNeedsConsentAlways, PTL DEF Providers!Spec, Providers!ApprovalsAreCovered
-----------------------------------------------------------------------------
(* The stop and its hooks *)

Places == {"idle", "looking", "wanting", "locked", "recorded", "set", "hooks",
           "registering", "exited"}

StopTypes ==
    /\ halted \in BOOLEAN
    /\ stateLock \in Stopping!Frames \union {None}
    /\ frame \in [Stopping!Frames -> Places]
    /\ todo \in [Stopping!Frames -> Seq(Hooks)]
    /\ hooks \in Seq(Hooks) /\ ran \in Seq(Hooks)

\* The frame that asked first, from the record of its reason to its last hook.
Stops(f) == frame[f] \in {"recorded", "set", "hooks"}

\* The lock has one holder, and of all the frames that ask one gets to stop.
OneStop ==
    /\ \A f \in Stopping!Frames :
           /\ frame[f] \in {"locked", "recorded", "set", "registering"} => stateLock = f
           /\ frame[f] = "recorded" => ~halted
           /\ frame[f] \in {"set", "hooks"} => halted
           /\ frame[f] \in {"recorded", "set"} => ran = <<>>
           /\ Stops(f) => first # None
    /\ \A f, g \in Stopping!Frames :
           frame[f] \in {"set", "hooks"} /\ frame[g] \in {"set", "hooks"} => f = g
    /\ halted => first # None
    /\ ~halted => ran = <<>>

\* What the frame has left to run follows what was run, in the order of the
\* hooks; what is registered meanwhile comes behind.
HooksInOrder ==
    \A f \in Stopping!Frames :
        frame[f] = "hooks" =>
               /\ Len(ran) + Len(todo[f]) <= Len(hooks)
               /\ \A k \in 1 .. Len(todo[f]) : todo[f][k] = hooks[Len(ran) + k]

StopInv == StopTypes /\ OneStop /\ HooksInOrder /\ Stopping!HooksRunOnce

\* No reason is the value that stands for none.
Reasoned == None \notin {"KILL_SWITCH", "ESC_KEY", "SIGINT"} /\ None \notin Stopping!Frames

\* Only the frame that finds no stop under the lock records a reason, so no step
\* of any frame makes a second one stop.
LEMMA StopInvStep ==
    ASSUME Reasoned, StopInv, [Stopping!Next]_(Stopping!vars)
    PROVE  StopInv' /\ (halted' => first' # None) /\ (halted => first' = first)
<1> USE DEF StopInv, Stopping!GoTo, Stopping!world, Stopping!state
<1>1. ASSUME NEW f \in Stopping!Frames, Stopping!Acquire(f)
      PROVE  StopInv' /\ (halted' => first' # None) /\ (halted => first' = first)
  <2>1. StopTypes'
    BY <1>1 DEF Stopping!Acquire, StopTypes, Stopping!Frames, Places
  <2>2. OneStop' /\ (halted => first' = first)
    BY <1>1 DEF Stopping!Acquire, StopTypes, OneStop, Stops, Places, Stopping!Frames, Reasoned
  <2>3. HooksInOrder' /\ Stopping!HooksRunOnce'
    BY <1>1
       DEF Stopping!Acquire, StopTypes, OneStop, Stops, HooksInOrder,
           Stopping!HooksRunOnce, Stopping!Frames
  <2> QED
    BY <2>1, <2>2, <2>3 DEF OneStop
<1>2. ASSUME NEW f \in Stopping!Frames, Stopping!AlreadyStopped(f)
      PROVE  StopInv' /\ (halted' => first' # None) /\ (halted => first' = first)
  <2>1. StopTypes'
    BY <1>2 DEF Stopping!AlreadyStopped, StopTypes, Stopping!Frames, Places
  <2>2. OneStop' /\ (halted => first' = first)
    BY <1>2
       DEF Stopping!AlreadyStopped, StopTypes, OneStop, Stops, Places, Stopping!Frames,
           Reasoned
  <2>3. HooksInOrder' /\ Stopping!HooksRunOnce'
    BY <1>2
       DEF Stopping!AlreadyStopped, StopTypes, OneStop, Stops, HooksInOrder,
           Stopping!HooksRunOnce, Stopping!Frames
  <2> QED
    BY <2>1, <2>2, <2>3 DEF OneStop
<1>3. ASSUME NEW f \in Stopping!Frames, Stopping!Record(f)
      PROVE  StopInv' /\ (halted' => first' # None) /\ (halted => first' = first)
  <2>1. StopTypes'
    BY <1>3 DEF Stopping!Record, StopTypes, Stopping!Frames, Places
  <2>2. OneStop' /\ (halted => first' = first)
    BY <1>3
       DEF Stopping!Record, StopTypes, OneStop, Stops, Places, Stopping!Frames, Reasoned,
           Stopping!Reason
  <2>3. HooksInOrder' /\ Stopping!HooksRunOnce'
    BY <1>3
       DEF Stopping!Record, StopTypes, OneStop, Stops, HooksInOrder, Stopping!HooksRunOnce,
           Stopping!Frames
  <2> QED
    BY <2>1, <2>2, <2>3 DEF OneStop
<1>4. ASSUME NEW f \in Stopping!Frames, Stopping!SetEvent(f)
      PROVE  StopInv' /\ (halted' => first' # None) /\ (halted => first' = first)
  <2>1. StopTypes'
    BY <1>4 DEF Stopping!SetEvent, StopTypes, Stopping!Frames, Places
  <2>2. OneStop' /\ (halted => first' = first)
    BY <1>4
       DEF Stopping!SetEvent, StopTypes, OneStop, Stops, Places, Stopping!Frames, Reasoned
  <2>3. HooksInOrder' /\ Stopping!HooksRunOnce'
    BY <1>4
       DEF Stopping!SetEvent, StopTypes, OneStop, Stops, HooksInOrder,
           Stopping!HooksRunOnce, Stopping!Frames
  <2> QED
    BY <2>1, <2>2, <2>3 DEF OneStop
<1>5. ASSUME NEW f \in Stopping!Frames, Stopping!Release(f)
      PROVE  StopInv' /\ (halted' => first' # None) /\ (halted => first' = first)
  <2>1. StopTypes'
    BY <1>5 DEF Stopping!Release, StopTypes, Stopping!Frames, Places
  <2>2. OneStop' /\ (halted => first' = first)
    BY <1>5 DEF Stopping!Release, StopTypes, OneStop, Stops, Places, Stopping!Frames, Reasoned
  <2>3. HooksInOrder' /\ Stopping!HooksRunOnce'
    BY <1>5
       DEF Stopping!Release, StopTypes, OneStop, Stops, HooksInOrder,
           Stopping!HooksRunOnce, Stopping!Frames
  <2> QED
    BY <2>1, <2>2, <2>3 DEF OneStop
<1>6. ASSUME NEW f \in Stopping!Frames, Stopping!RunHook(f)
      PROVE  StopInv' /\ (halted' => first' # None) /\ (halted => first' = first)
  <2>0. todo[f] \in Seq(Hooks) /\ ran \in Seq(Hooks) /\ frame[f] = "hooks"
    BY <1>6 DEF Stopping!RunHook, StopTypes
  <2>a. CASE /\ todo[f] # <<>>
             /\ ran' = Append(ran, Head(todo[f]))
             /\ todo' = [todo EXCEPT ![f] = Tail(@)]
             /\ UNCHANGED <<frame, halted, first, stateLock, hooks>>
    <3>1. /\ todo'[f] \in Seq(Hooks) /\ ran' \in Seq(Hooks)
          /\ Len(ran') = Len(ran) + 1 /\ Len(todo'[f]) + 1 = Len(todo[f])
          /\ \A k \in 1 .. Len(ran) : ran'[k] = ran[k]
          /\ ran'[Len(ran) + 1] = todo[f][1]
          /\ \A k \in 1 .. Len(todo'[f]) : todo'[f][k] = todo[f][k + 1]
      BY <2>0, <2>a DEF StopTypes
    <3>2. StopTypes'
      BY <2>a, <3>1 DEF StopTypes
    <3>3. OneStop'
      BY <2>0, <2>a DEF OneStop, Stops
    <3>4. \A g \in Stopping!Frames : frame[g] = "hooks" => g = f
      BY <2>0 DEF OneStop
    <3>5. /\ Len(ran) + Len(todo[f]) <= Len(hooks) /\ Len(todo[f]) > 0
          /\ \A k \in 1 .. Len(todo[f]) : todo[f][k] = hooks[Len(ran) + k]
      BY <2>0, <2>a DEF HooksInOrder
    <3>6. HooksInOrder'
      <4> SUFFICES /\ Len(ran') + Len(todo'[f]) <= Len(hooks)
                   /\ \A k \in 1 .. Len(todo'[f]) : todo'[f][k] = hooks[Len(ran') + k]
        BY <2>a, <3>4 DEF HooksInOrder
      <4>1. /\ Len(ran) \in Nat /\ Len(todo[f]) \in Nat
            /\ Len(ran') \in Nat /\ Len(todo'[f]) \in Nat
        BY <2>0, <3>1
      <4>2. ASSUME NEW k \in 1 .. Len(todo'[f])
            PROVE  todo'[f][k] = hooks[Len(ran') + k]
        <5>1. k + 1 \in 1 .. Len(todo[f]) /\ Len(ran) + (k + 1) = Len(ran') + k
          BY <3>1, <4>1
        <5> QED
          BY <3>1, <3>5, <5>1
      <4>3. Len(ran') = Len(ran) + 1 /\ Len(todo'[f]) + 1 = Len(todo[f])
        BY <3>1
      <4>4. Len(ran') + Len(todo'[f]) = Len(ran) + Len(todo[f])
        <5>1. \A a, b, c, d \in Nat : c = a + 1 /\ d + 1 = b => c + d = a + b
          OBVIOUS
        <5> DEFINE a == Len(ran) b == Len(todo[f]) c == Len(ran') d == Len(todo'[f])
        <5>2. a \in Nat /\ b \in Nat /\ c \in Nat /\ d \in Nat /\ c = a + 1 /\ d + 1 = b
          BY <4>1, <4>3
        <5>3. c + d = a + b
          <6> HIDE DEF a, b, c, d
          <6> QED BY <5>1, <5>2
        <5> QED
          BY <5>3
      <4> QED
        BY <3>5, <4>2, <4>4
    <3>7. Stopping!HooksRunOnce'
      BY <2>0, <2>a, <3>1, <3>5 DEF Stopping!HooksRunOnce, StopTypes
    <3> QED
      BY <2>a, <3>2, <3>3, <3>6, <3>7 DEF OneStop
  <2>b. CASE Stopping!GoTo(f, "idle") /\ UNCHANGED <<halted, first, stateLock, hooks, todo, ran>>
    <3>1. StopTypes'
      BY <2>b DEF StopTypes, Places
    <3>2. OneStop'
      BY <2>b DEF StopTypes, OneStop, Stops
    <3>3. HooksInOrder' /\ Stopping!HooksRunOnce'
      BY <2>b DEF StopTypes, HooksInOrder, Stopping!HooksRunOnce
    <3> QED
      BY <2>b, <3>1, <3>2, <3>3 DEF OneStop
  <2> QED
    BY <1>6, <2>a, <2>b DEF Stopping!RunHook
<1>7. ASSUME Stopping!RegisterHook
      PROVE  StopInv' /\ (halted' => first' # None) /\ (halted => first' = first)
  <2>1. StopTypes'
    BY <1>7 DEF Stopping!RegisterHook, StopTypes, Stopping!Frames, Places
  <2>2. OneStop' /\ (halted => first' = first)
    BY <1>7
       DEF Stopping!RegisterHook, StopTypes, OneStop, Stops, Places, Stopping!Frames,
           Reasoned
  <2>3. HooksInOrder' /\ Stopping!HooksRunOnce'
    BY <1>7
       DEF Stopping!RegisterHook, StopTypes, OneStop, Stops, HooksInOrder,
           Stopping!HooksRunOnce, Stopping!Frames
  <2> QED
    BY <2>1, <2>2, <2>3 DEF OneStop
<1>8. ASSUME Stopping!Registered
      PROVE  StopInv' /\ (halted' => first' # None) /\ (halted => first' = first)
  <2>1. StopTypes'
    BY <1>8 DEF Stopping!Registered, StopTypes, Stopping!Frames, Places
  <2>2. OneStop' /\ (halted => first' = first)
    BY <1>8
       DEF Stopping!Registered, StopTypes, OneStop, Stops, Places, Stopping!Frames,
           Reasoned
  <2>3. HooksInOrder' /\ Stopping!HooksRunOnce'
    <3>1. PICK h \in Hooks : hooks' = Append(hooks, h)
      BY <1>8 DEF Stopping!Registered
    <3>2. Len(hooks') = Len(hooks) + 1 /\ \A k \in 1 .. Len(hooks) : hooks'[k] = hooks[k]
      BY <3>1 DEF StopTypes
    <3>3. UNCHANGED <<todo, ran>> /\ \A f \in Stopping!Frames : frame'[f] = "hooks" => frame[f] = "hooks"
      BY <1>8 DEF Stopping!Registered, StopTypes
    <3>4. /\ Len(hooks) \in Nat /\ Len(ran) \in Nat
          /\ \A f \in Stopping!Frames : Len(todo[f]) \in Nat
      BY DEF StopTypes
    <3>5. HooksInOrder'
      <4> SUFFICES ASSUME NEW f \in Stopping!Frames, frame[f] = "hooks"
                   PROVE  /\ Len(ran) + Len(todo[f]) <= Len(hooks')
                          /\ \A k \in 1 .. Len(todo[f]) : todo[f][k] = hooks'[Len(ran) + k]
        BY <3>3 DEF HooksInOrder
      <4>1. /\ Len(ran) + Len(todo[f]) <= Len(hooks)
            /\ \A k \in 1 .. Len(todo[f]) : todo[f][k] = hooks[Len(ran) + k]
        BY DEF HooksInOrder
      <4>2. ASSUME NEW k \in 1 .. Len(todo[f])
            PROVE  todo[f][k] = hooks'[Len(ran) + k]
        <5>1. Len(ran) + k \in 1 .. Len(hooks)
          BY <3>4, <4>1
        <5> QED
          BY <3>2, <4>1, <5>1
      <4> QED
        BY <3>2, <3>4, <4>1, <4>2
    <3>6. Stopping!HooksRunOnce'
      BY <3>2, <3>3, <3>4 DEF Stopping!HooksRunOnce
    <3> QED
      BY <3>5, <3>6
  <2> QED
    BY <2>1, <2>2, <2>3 DEF OneStop
<1>9. ASSUME NEW f \in Stopping!Frames, Stopping!CheckNow(f) \/ Stopping!LookAtFile(f)
      PROVE  StopInv' /\ (halted' => first' # None) /\ (halted => first' = first)
  <2>0. /\ Stopping!CanRun(f) /\ frame[f] \in {"idle", "looking"}
        /\ \E place \in {"idle", "looking", "wanting"} : Stopping!GoTo(f, place)
        /\ UNCHANGED <<halted, first, stateLock, hooks, todo, ran>>
    BY <1>9 DEF Stopping!CheckNow, Stopping!LookAtFile, Stopping!state
  <2>1. StopTypes'
    BY <2>0 DEF Stopping!GoTo, StopTypes, Stopping!Frames, Places
  <2>2. OneStop' /\ (halted => first' = first)
    BY <2>0 DEF Stopping!GoTo, StopTypes, OneStop, Stops, Places, Stopping!Frames, Reasoned
  <2>3. HooksInOrder' /\ Stopping!HooksRunOnce'
    BY <2>0
       DEF Stopping!GoTo, StopTypes, OneStop, Stops, HooksInOrder, Stopping!HooksRunOnce,
           Stopping!Frames
  <2> QED
    BY <2>1, <2>2, <2>3 DEF OneStop
<1>10. ASSUME Stopping!ListenerReads
      PROVE  StopInv' /\ (halted' => first' # None) /\ (halted => first' = first)
  <2>1. StopTypes'
    BY <1>10 DEF Stopping!ListenerReads, StopTypes, Stopping!Frames, Places
  <2>2. OneStop' /\ (halted => first' = first)
    BY <1>10
       DEF Stopping!ListenerReads, StopTypes, OneStop, Stops, Places, Stopping!Frames,
           Reasoned
  <2>3. HooksInOrder' /\ Stopping!HooksRunOnce'
    BY <1>10
       DEF Stopping!ListenerReads, StopTypes, OneStop, Stops, HooksInOrder,
           Stopping!HooksRunOnce, Stopping!Frames
  <2> QED
    BY <2>1, <2>2, <2>3 DEF OneStop
<1>11. ASSUME Stopping!Sigint
      PROVE  StopInv' /\ (halted' => first' # None) /\ (halted => first' = first)
  <2>1. StopTypes'
    BY <1>11 DEF Stopping!Sigint, StopTypes, Stopping!Frames, Places
  <2>2. OneStop' /\ (halted => first' = first)
    BY <1>11 DEF Stopping!Sigint, StopTypes, OneStop, Stops, Places, Stopping!Frames, Reasoned
  <2>3. HooksInOrder' /\ Stopping!HooksRunOnce'
    BY <1>11
       DEF Stopping!Sigint, StopTypes, OneStop, Stops, HooksInOrder, Stopping!HooksRunOnce,
           Stopping!Frames
  <2> QED
    BY <2>1, <2>2, <2>3 DEF OneStop
<1>12. ASSUME Stopping!Operator
      PROVE  StopInv' /\ (halted' => first' # None) /\ (halted => first' = first)
  <2>1. StopTypes'
    BY <1>12 DEF Stopping!Operator, StopTypes, Stopping!Frames, Places
  <2>2. OneStop' /\ (halted => first' = first)
    BY <1>12
       DEF Stopping!Operator, StopTypes, OneStop, Stops, Places, Stopping!Frames, Reasoned
  <2>3. HooksInOrder' /\ Stopping!HooksRunOnce'
    BY <1>12
       DEF Stopping!Operator, StopTypes, OneStop, Stops, HooksInOrder,
           Stopping!HooksRunOnce, Stopping!Frames
  <2> QED
    BY <2>1, <2>2, <2>3 DEF OneStop
<1>13. ASSUME UNCHANGED Stopping!vars
      PROVE  StopInv' /\ (halted' => first' # None) /\ (halted => first' = first)
  <2>1. StopTypes'
    BY <1>13 DEF Stopping!vars, StopTypes, Stopping!Frames, Places
  <2>2. OneStop' /\ (halted => first' = first)
    BY <1>13 DEF Stopping!vars, StopTypes, OneStop, Stops, Places, Stopping!Frames, Reasoned
  <2>3. HooksInOrder' /\ Stopping!HooksRunOnce'
    BY <1>13
       DEF Stopping!vars, StopTypes, OneStop, Stops, HooksInOrder, Stopping!HooksRunOnce,
           Stopping!Frames
  <2> QED
    BY <2>1, <2>2, <2>3 DEF OneStop
<1> QED
  BY <1>1, <1>2, <1>3, <1>4, <1>5, <1>6, <1>7, <1>8, <1>9, <1>10, <1>11, <1>12,
     <1>13 DEF Stopping!Next

\* It holds at the start and every step keeps it.
LEMMA StopInvHolds == ASSUME Reasoned PROVE Stopping!Spec => []StopInv
<1>1. Stopping!Init => StopInv
  <2> SUFFICES ASSUME Stopping!Init PROVE StopInv
    OBVIOUS
  <2>1. StopTypes
    <3>1. <<>> \in Seq(Hooks)
      OBVIOUS
    <3> QED
      BY <3>1 DEF Stopping!Init, StopTypes, Places
  <2>2. OneStop
    BY DEF Stopping!Init, OneStop, Stops, Stopping!Frames
  <2>3. HooksInOrder /\ Stopping!HooksRunOnce
    BY DEF Stopping!Init, HooksInOrder, Stopping!HooksRunOnce, Stopping!Frames
  <2> QED
    BY <2>1, <2>2, <2>3 DEF StopInv
<1>2. StopInv /\ [Stopping!Next]_(Stopping!vars) => StopInv'
  BY StopInvStep
<1> QED
  BY <1>1, <1>2, PTL DEF Stopping!Spec

\* _state.py:106: however many frames ask for the stop at the same time, for
\* any hooks, each hook runs at most once and in the order of registration.
THEOREM HooksRunOnceAlways == ASSUME Reasoned PROVE Stopping!Spec => []Stopping!HooksRunOnce
  BY StopInvHolds, PTL DEF StopInv

\* The first reason is there before the stop can be seen and is never replaced.
THEOREM FirstReasonAlways == ASSUME Reasoned PROVE Stopping!Spec => Stopping!FirstReasonStands
<1>1. StopInv /\ [Stopping!Next]_(Stopping!vars) =>
          [(halted' => first' # None) /\ (halted => first' = first)]_(Stopping!vars)
  BY StopInvStep
<1> QED
  BY <1>1, StopInvHolds, PTL DEF Stopping!Spec, Stopping!FirstReasonStands

\* Who holds the lock is at a place where it is held, the process ends in all its
\* frames at once, and a handler above a main frame with the lock only waits.
HolderHolds ==
    /\ \A f, g \in Stopping!Frames : frame[f] = "exited" => frame[g] = "exited"
    /\ stateLock # None =>
          frame[stateLock] \in {"locked", "recorded", "set", "registering", "exited"}
    /\ stateLock = "main" => frame["handler"] \in {"idle", "wanting", "exited"}
    /\ sigints = 0 => frame["handler"] = "idle"
    /\ sigints \in Nat

\* Only the holder leaves such a place, and it gives the lock back when it does.
LEMMA HolderHoldsStep ==
    ASSUME Reasoned, StopInv, HolderHolds, [Stopping!Next]_(Stopping!vars)
    PROVE  HolderHolds'
<1> USE DEF StopInv, StopTypes, OneStop, HolderHolds, Stopping!Frames, Stopping!GoTo,
            Stopping!CanRun, Stopping!world, Reasoned
<1>1. ASSUME NEW f \in Stopping!Frames, Stopping!Acquire(f) \/ Stopping!AlreadyStopped(f)
      PROVE  HolderHolds'
  BY <1>1 DEF Stopping!Acquire, Stopping!AlreadyStopped
<1>2. ASSUME NEW f \in Stopping!Frames, Stopping!Record(f) \/ Stopping!SetEvent(f)
      PROVE  HolderHolds'
  BY <1>2 DEF Stopping!Record, Stopping!SetEvent
<1>3. ASSUME NEW f \in Stopping!Frames, Stopping!Release(f)
      PROVE  HolderHolds'
  BY <1>3 DEF Stopping!Release
<1>4. ASSUME NEW f \in Stopping!Frames, Stopping!RunHook(f)
      PROVE  HolderHolds'
  BY <1>4 DEF Stopping!RunHook
<1>5. ASSUME NEW f \in Stopping!Frames, Stopping!CheckNow(f) \/ Stopping!LookAtFile(f)
      PROVE  HolderHolds'
  BY <1>5 DEF Stopping!CheckNow, Stopping!LookAtFile, Stopping!state
<1>6. CASE Stopping!RegisterHook \/ Stopping!Registered
  BY <1>6 DEF Stopping!RegisterHook, Stopping!Registered
<1>7. CASE Stopping!ListenerReads
  BY <1>7 DEF Stopping!ListenerReads, Stopping!state
<1>8. CASE Stopping!Sigint
  <2>1. CASE sigints = 0
    <3>1. frame' = [frame EXCEPT !["handler"] = "wanting"] /\ stateLock' = stateLock
      BY <1>8, <2>1 DEF Stopping!Sigint, Stopping!state
    <3>2. frame["handler"] = "idle"
      BY <2>1
    <3>3. sigints' # 0 /\ sigints' \in Nat
      BY <1>8, <2>1 DEF Stopping!Sigint
    <3>4. \A f \in Stopping!Frames : frame[f] # "exited"
      BY <1>8 DEF Stopping!Sigint
    <3>5. stateLock # "handler"
      BY <3>2
    <3> QED
      BY <3>1, <3>2, <3>3, <3>4, <3>5
  <2>2. CASE sigints # 0
    <3>1. /\ frame' = [f \in Stopping!Frames |-> "exited"]
          /\ stateLock' = stateLock
          /\ sigints' # 0 /\ sigints' \in Nat
      BY <1>8, <2>2 DEF Stopping!Sigint, Stopping!state
    <3> QED
      BY <3>1
  <2> QED
    BY <2>1, <2>2
<1>9. CASE Stopping!Operator \/ UNCHANGED Stopping!vars
  BY <1>9 DEF Stopping!Operator, Stopping!state, Stopping!vars
<1> QED
  BY <1>1, <1>2, <1>3, <1>4, <1>5, <1>6, <1>7, <1>8, <1>9 DEF Stopping!Next

\* _state.py:106: the lock of the stop comes free, but for a handler that waits on
\* top of the main frame that holds it.
THEOREM LockComesFreeAlways == ASSUME Reasoned PROVE Stopping!Spec => []Stopping!LockComesFree
<1>1. Stopping!Init => HolderHolds
  BY DEF Stopping!Init, HolderHolds, Stopping!Frames
<1>2. StopInv /\ HolderHolds /\ [Stopping!Next]_(Stopping!vars) => HolderHolds'
  BY HolderHoldsStep
<1>3. StopInv /\ HolderHolds => Stopping!LockComesFree
  BY DEF StopInv, StopTypes, HolderHolds, Stopping!LockComesFree, Stopping!CanRun,
         Stopping!Frames
<1> QED
  BY <1>1, <1>2, <1>3, StopInvHolds, PTL DEF Stopping!Spec

\* What is left of the types: a reason is one of the three, and a hook that is
\* being registered still has its place.
RoomForHooks ==
    /\ first \in {None, "KILL_SWITCH", "ESC_KEY", "SIGINT"}
    /\ Len(hooks) <= Cardinality(Hooks)
    /\ frame["main"] = "registering" => Len(hooks) < Cardinality(Hooks)

\* The callbacks of a program are finitely many.
FewHooks == IsFiniteSet(Hooks)

\* Both modules count alike.
LEMMA StoppingCount == \A S : Stopping!Cardinality(S) = Cardinality(S)
BY DEF Stopping!Cardinality, Cardinality

\* Only a frame under the lock records a reason, and it has one of its own; only
\* Registered makes the list longer, by one.
LEMMA RoomForHooksStep ==
    ASSUME FewHooks, StopInv, RoomForHooks, [Stopping!Next]_(Stopping!vars)
    PROVE  RoomForHooks'
<1>0. Cardinality(Hooks) \in Nat /\ Len(hooks) \in Nat
  BY FS_CardinalityType DEF FewHooks, StopInv, StopTypes
<1> USE DEF StopInv, StopTypes, RoomForHooks, Stopping!GoTo, Stopping!world, Stopping!state, Stopping!Frames
<1>1. ASSUME NEW f \in Stopping!Frames, Stopping!Acquire(f) \/ Stopping!AlreadyStopped(f) \/ Stopping!SetEvent(f)
      PROVE  RoomForHooks'
  BY <1>1 DEF Stopping!Acquire, Stopping!AlreadyStopped, Stopping!SetEvent
<1>2. ASSUME NEW f \in Stopping!Frames, Stopping!Record(f)
      PROVE  RoomForHooks'
  BY <1>2 DEF Stopping!Record, Stopping!Reason
<1>3. ASSUME NEW f \in Stopping!Frames, Stopping!Release(f) \/ Stopping!RunHook(f)
      PROVE  RoomForHooks'
  BY <1>3 DEF Stopping!Release, Stopping!RunHook
<1>4. CASE Stopping!Registered
  <2>1. PICK h \in Hooks : hooks' = Append(hooks, h)
    BY <1>4 DEF Stopping!Registered
  <2>2. Len(hooks') = Len(hooks) + 1 /\ Len(hooks) < Cardinality(Hooks)
    BY <1>4, <2>1, StoppingCount DEF Stopping!Registered
  <2>3. first' = first /\ frame'["main"] = "idle"
    BY <1>4 DEF Stopping!Registered
  <2> QED
    BY <1>0, <2>2, <2>3
<1>5. ASSUME Stopping!RegisterHook \/ \E f \in Stopping!Frames : Stopping!CheckNow(f) \/ Stopping!LookAtFile(f)
      PROVE  RoomForHooks'
  BY <1>5, <1>0, StoppingCount
     DEF Stopping!RegisterHook, Stopping!CheckNow, Stopping!LookAtFile
<1>6. CASE Stopping!ListenerReads
  BY <1>6 DEF Stopping!ListenerReads
<1>7. CASE Stopping!Sigint
  BY <1>7 DEF Stopping!Sigint
<1>8. CASE Stopping!Operator \/ UNCHANGED Stopping!vars
  BY <1>8 DEF Stopping!Operator, Stopping!vars
<1> QED
  BY <1>1, <1>2, <1>3, <1>4, <1>5, <1>6, <1>7, <1>8 DEF Stopping!Next

\* All that the run of the desk says of a stop, for any finite set of hooks.
THEOREM OneStopForAllAlways ==
    ASSUME Reasoned, FewHooks PROVE Stopping!Spec => []Stopping!OneStopForAll
<1>1. Stopping!Init => RoomForHooks
  <2>1. Cardinality(Hooks) \in Nat
    BY FS_CardinalityType DEF FewHooks
  <2> QED
    BY <2>1 DEF Stopping!Init, RoomForHooks, Stopping!Frames
<1>2. StopInv /\ RoomForHooks /\ [Stopping!Next]_(Stopping!vars) => RoomForHooks'
  BY RoomForHooksStep
<1>3. StopInv /\ RoomForHooks => Stopping!TypeOK
  <2> SUFFICES ASSUME StopInv, RoomForHooks PROVE Stopping!TypeOK
    OBVIOUS
  <2>1. Stopping!Range(hooks) \subseteq Hooks
    BY DEF StopInv, StopTypes, Stopping!Range
  <2> QED
    BY <2>1, StoppingCount DEF StopInv, StopTypes, RoomForHooks, Stopping!TypeOK, Places
<1> QED
  BY <1>1, <1>2, <1>3, StopInvHolds, HooksRunOnceAlways, LockComesFreeAlways, PTL
     DEF Stopping!Spec, Stopping!OneStopForAll
-----------------------------------------------------------------------------
(* Requests to the broker *)

ClientTypes ==
    /\ clock \in Nat /\ token \in Int
    /\ request \in [Client!Threads -> {"idle", "deadline", "bucket", "refused", "token", "http", "done"}]
    /\ result \in [Client!Threads -> Client!Results]
    /\ attempts \in [Client!Threads -> Nat] /\ posted \in [Client!Threads -> Nat]
    /\ waitFrom \in [Client!Threads -> Int] /\ header \in [Client!Threads -> Int]
    /\ arrived \in [Client!Threads -> BOOLEAN]

\* What a request has done so far, by the place it has reached.
RequestFits(t) ==
    /\ posted[t] = attempts[t] /\ attempts[t] <= 1 + Client!MaxRetries(t)
    /\ request[t] \in {"token", "http"} => waitFrom[t] <= clock
    /\ request[t] = "http" => header[t] > waitFrom[t]
    /\ result[t] = "ok" => arrived[t]
    /\ request[t] = "done" <=> result[t] # "none"

ClientInv == ClientTypes /\ \A t \in Client!Threads : RequestFits(t)

\* A token lives, is given up a margin before it dies, and requests wait.
ClientConfigured ==
            /\ Lifetime \in Nat \ {0} /\ Margin \in Nat /\ MaxWait \in Nat
            /\ Rate \in Nat \ {0} /\ Second \in Nat /\ MaxTime \in Nat

\* Each step of one request keeps its own facts and touches no other request;
\* a step of the clock only makes the past longer.
LEMMA ClientInvStep ==
    ASSUME ClientConfigured, ClientInv, [Client!Next]_(Client!vars)
    PROVE  ClientInv'
<1> USE DEF ClientConfigured, ClientInv, Client!bucket, Client!retry, Client!wire, Client!GoTo, Client!End, Client!Attempt
<1>1. ASSUME NEW t \in Client!Threads, Client!Start(t)
      PROVE  ClientInv'
  <2>1. ClientTypes'
    BY <1>1 DEF Client!Start, ClientTypes, Client!MaxRetries, Client!Results
  <2>2. ASSUME NEW q \in Client!Threads
        PROVE  RequestFits(q)'
    BY <1>1 DEF Client!Start, ClientTypes, RequestFits, Client!MaxRetries
  <2> QED
    BY <2>1, <2>2
<1>2. ASSUME NEW t \in Client!Threads, Client!Acquire(t)
      PROVE  ClientInv'
  <2>0. /\ request[t] = "bucket"
        /\ \/ Client!GoTo(t, "token") /\ waitFrom' = [waitFrom EXCEPT ![t] = clock]
           \/ Client!GoTo(t, "refused") /\ UNCHANGED waitFrom
        /\ UNCHANGED <<clock, Client!retry, token, header, Client!wire, result>>
    BY <1>2 DEF Client!Acquire
  <2>1. ClientTypes'
    BY <2>0 DEF ClientTypes
  <2>2. ASSUME NEW q \in Client!Threads
        PROVE  RequestFits(q)'
    BY <2>0 DEF ClientTypes, RequestFits, Client!MaxRetries
  <2> QED
    BY <2>1, <2>2
<1>3. ASSUME NEW t \in Client!Threads, Client!Sleep(t)
      PROVE  ClientInv'
  <2>1. ClientTypes'
    BY <1>3 DEF Client!Sleep, ClientTypes, Client!MaxRetries, Client!Results
  <2>2. ASSUME NEW q \in Client!Threads
        PROVE  RequestFits(q)'
    BY <1>3 DEF Client!Sleep, ClientTypes, RequestFits, Client!MaxRetries
  <2> QED
    BY <2>1, <2>2
<1>4. ASSUME NEW t \in Client!Threads, Client!GetToken(t)
      PROVE  ClientInv'
  <2>1. ClientTypes'
    BY <1>4 DEF Client!GetToken, ClientTypes, Client!MaxRetries, Client!Results
  <2>2. ASSUME NEW q \in Client!Threads
        PROVE  RequestFits(q)'
    BY <1>4 DEF Client!GetToken, Client!Expired, ClientTypes, RequestFits, Client!MaxRetries
  <2> QED
    BY <2>1, <2>2
<1>5. ASSUME NEW t \in Client!Threads, Client!Success(t)
      PROVE  ClientInv'
  <2>1. ClientTypes'
    BY <1>5 DEF Client!Success, ClientTypes, Client!MaxRetries, Client!Results
  <2>2. ASSUME NEW q \in Client!Threads
        PROVE  RequestFits(q)'
    BY <1>5 DEF Client!Success, ClientTypes, RequestFits, Client!MaxRetries
  <2> QED
    BY <2>1, <2>2
<1>6. ASSUME NEW t \in Client!Threads, Client!Failure(t)
      PROVE  ClientInv'
  <2>1. ClientTypes'
    BY <1>6 DEF Client!Failure, ClientTypes, Client!MaxRetries, Client!Results
  <2>2. ASSUME NEW q \in Client!Threads
        PROVE  RequestFits(q)'
    BY <1>6 DEF Client!Failure, ClientTypes, RequestFits, Client!MaxRetries
  <2> QED
    BY <2>1, <2>2
<1>7. ASSUME NEW t \in Client!Threads, Client!Retry(t)
      PROVE  ClientInv'
  <2>1. ClientTypes'
    <3>1. arrived' \in [Client!Threads -> BOOLEAN]
      BY <1>7 DEF Client!Retry, ClientTypes
    <3>2. \/ Client!End(t, "api_error")
          \/ UNCHANGED <<request, result>>
      BY <1>7 DEF Client!Retry
    <3>3. Client!Attempt(t) /\ UNCHANGED <<clock, token, header, waitFrom>>
      BY <1>7 DEF Client!Retry
    <3> QED
      BY <3>1, <3>2, <3>3 DEF ClientTypes, Client!Results
  <2>2. ASSUME NEW q \in Client!Threads
        PROVE  RequestFits(q)'
    BY <1>7 DEF Client!Retry, ClientTypes, RequestFits, Client!MaxRetries
  <2> QED
    BY <2>1, <2>2
<1>8. ASSUME NEW t \in Client!Threads, Client!Unauthorized(t)
      PROVE  ClientInv'
  <2>1. ClientTypes'
    BY <1>8 DEF Client!Unauthorized, ClientTypes, Client!MaxRetries, Client!Results
  <2>2. ASSUME NEW q \in Client!Threads
        PROVE  RequestFits(q)'
    BY <1>8 DEF Client!Unauthorized, ClientTypes, RequestFits, Client!MaxRetries
  <2> QED
    BY <2>1, <2>2
<1>9. ASSUME NEW t \in Client!Threads, Client!Exhausted(t)
      PROVE  ClientInv'
  <2>1. ClientTypes'
    BY <1>9 DEF Client!Exhausted, ClientTypes, Client!MaxRetries, Client!Results
  <2>2. ASSUME NEW q \in Client!Threads
        PROVE  RequestFits(q)'
    BY <1>9 DEF Client!Exhausted, ClientTypes, RequestFits, Client!MaxRetries
  <2> QED
    BY <2>1, <2>2
<1>10. CASE Client!Switch \/ Client!Tick \/ UNCHANGED Client!vars
  BY <1>10
     DEF Client!Switch, Client!Tick, Client!vars, ClientTypes, RequestFits,
         Client!MaxRetries
<1> QED
  BY <1>1, <1>2, <1>3, <1>4, <1>5, <1>6, <1>7, <1>8, <1>9, <1>10 DEF Client!Next

\* It holds at the start and every step keeps it.
LEMMA ClientInvHolds == ASSUME ClientConfigured PROVE Client!Spec => []ClientInv
<1>1. Client!Init => ClientInv
  BY DEF Client!Init, ClientInv, ClientTypes, RequestFits, Client!MaxRetries, Client!Results
<1>2. ClientInv /\ [Client!Next]_(Client!vars) => ClientInv'
  BY ClientInvStep
<1> QED
  BY <1>1, <1>2, PTL DEF Client!Spec

\* client.py:197 and orders.py: an order is not retried, so whatever the
\* network and the token do, no thread sends its order a second time.
THEOREM OrderSentOnceAlways == ASSUME ClientConfigured PROVE Client!Spec => []Client!OrderSentOnce
<1>1. ClientInv => Client!OrderSentOnce
  BY
     DEF ClientInv, ClientTypes, RequestFits, Client!OrderSentOnce, Client!MaxRetries,
         Client!Threads
<1> QED
  BY <1>1, ClientInvHolds, PTL

\* "Accepted" is told only of an order that the broker executed, and every
\* request leaves with a token that was valid by the clock it had read.
THEOREM AnswersAndTokensAlways ==
    ASSUME ClientConfigured PROVE Client!Spec => [](Client!AnswerIsTrue /\ Client!TokenWasValid)
<1>1. ClientInv => Client!AnswerIsTrue /\ Client!TokenWasValid
  BY DEF ClientInv, RequestFits, Client!AnswerIsTrue, Client!TokenWasValid, Client!Threads
<1> QED
  BY <1>1, ClientInvHolds, PTL
-----------------------------------------------------------------------------
(* The rate *)

\* What is popped is a second old and what is left are the newest stamps.
LEMMA RecentIsTail ==
    ASSUME ClientConfigured, stamps \in Seq(Int), clock \in Int
    PROVE  \E n \in 0 .. Len(stamps) :
             /\ Client!Recent(clock) = SubSeq(stamps, n + 1, Len(stamps))
             /\ \A i \in 1 .. n : stamps[i] <= clock - Second
<1> DEFINE popped == {n \in 0 .. Len(stamps) : \A i \in 1 .. n : stamps[i] <= clock - Second}
           left == {Len(stamps) - n : n \in popped}
<1>1. \E n \in popped : \A m \in popped : m <= n
  <2>1. 0 \in popped /\ popped \subseteq 0 .. Len(stamps) /\ Len(stamps) \in Nat
    OBVIOUS
  <2> HIDE DEF popped
  <2>2. left \subseteq Nat /\ left # {}
    BY <2>1
  <2>3. PICK x \in left : \A y \in left : x <= y
    <3> HIDE DEF left
    <3> QED BY <2>2, LeastNatural
  <2>4. PICK n \in popped : x = Len(stamps) - n
    OBVIOUS
  <2>5. \A m \in popped : x <= Len(stamps) - m
    BY <2>3
  <2> QED BY <2>1, <2>4, <2>5
<1>2. (CHOOSE n \in popped : \A m \in popped : m <= n) \in popped
  <2> HIDE DEF popped
  <2> QED BY <1>1
<1> QED BY <1>2 DEF Client!Recent

\* The stamps are the newest permits, and what they leave out is a second old;
\* so a permit that finds room is a second after the one Rate places before it.
BucketFits ==
    /\ permits \in Seq(Int) /\ stamps \in Seq(Int) /\ clock \in 0 .. MaxTime
    /\ Len(stamps) <= Rate
    /\ \E k \in 0 .. Len(permits) :
         /\ Len(stamps) = Len(permits) - k
         /\ \A i \in 1 .. Len(stamps) : stamps[i] = permits[k + i]
         /\ \A i \in 1 .. k : permits[i] <= clock - Second
    /\ Client!RateHolds

\* A permit, a refusal and the clock keep it.
LEMMA BucketFitsStep ==
    ASSUME ClientConfigured, BucketFits, [Client!Next]_(Client!vars)
    PROVE  BucketFits'
<1>1. ASSUME NEW t \in Client!Threads, Client!Acquire(t)
      PROVE  BucketFits'
  <2>1. PICK n \in 0 .. Len(stamps) :
          /\ Client!Recent(clock) = SubSeq(stamps, n + 1, Len(stamps))
          /\ \A i \in 1 .. n : stamps[i] <= clock - Second
    <3>1. clock \in Int /\ stamps \in Seq(Int)
      BY DEF BucketFits, ClientConfigured
    <3> QED BY <3>1, RecentIsTail
  <2>2. PICK k \in 0 .. Len(permits) :
          /\ Len(stamps) = Len(permits) - k
          /\ \A i \in 1 .. Len(stamps) : stamps[i] = permits[k + i]
          /\ \A i \in 1 .. k : permits[i] <= clock - Second
    BY DEF BucketFits
  <2> DEFINE recent == Client!Recent(clock)
  <2>3. /\ recent \in Seq(Int) /\ Len(recent) = Len(stamps) - n
        /\ \A i \in 1 .. Len(recent) : recent[i] = stamps[n + i]
    <3>1. stamps \in Seq(Int) /\ Len(stamps) \in Nat /\ n \in 0 .. Len(stamps)
      BY DEF BucketFits
    <3>2. recent = SubSeq(stamps, n + 1, Len(stamps))
      BY <2>1
    <3>3. /\ SubSeq(stamps, n + 1, Len(stamps)) \in Seq(Int)
          /\ Len(SubSeq(stamps, n + 1, Len(stamps))) = Len(stamps) - n
          /\ \A i \in 1 .. Len(stamps) - n :
               SubSeq(stamps, n + 1, Len(stamps))[i] = stamps[n + i]
      BY <3>1
    <3> HIDE DEF recent
    <3> QED BY <3>2, <3>3
  <2> HIDE DEF recent
  <2>4. /\ Len(stamps) \in Nat /\ Len(permits) \in Nat /\ clock \in Int /\ Second \in Nat
        /\ Rate \in Nat \ {0} /\ Len(stamps) <= Rate
        /\ \A i \in 1 .. Len(permits) : permits[i] \in Int
    <3>1. Len(stamps) \in Nat /\ \A i \in 1 .. Len(permits) : permits[i] \in Int
      BY DEF BucketFits
    <3> QED BY <3>1 DEF BucketFits, ClientConfigured
  <2>5. /\ k + n \in 0 .. Len(permits) /\ Len(recent) = Len(permits) - (k + n)
        /\ \A i \in 1 .. Len(recent) : recent[i] = permits[k + n + i]
        /\ \A i \in 1 .. k + n : permits[i] <= clock - Second
    <3>1. ASSUME NEW i \in 1 .. k + n PROVE permits[i] <= clock - Second
      <4>1. CASE i <= k
        BY <2>2, <2>4, <4>1
      <4>2. CASE i > k
        <5>1. i - k \in 1 .. n /\ i - k \in 1 .. Len(stamps) /\ k + (i - k) = i
          BY <2>4, <4>2
        <5>2. stamps[i - k] = permits[i] /\ stamps[i - k] <= clock - Second
          BY <2>1, <2>2, <5>1
        <5> QED BY <5>2
      <4> QED BY <2>4, <4>1, <4>2
    <3>2. ASSUME NEW i \in 1 .. Len(recent) PROVE recent[i] = permits[k + n + i]
      <4>1. n + i \in 1 .. Len(stamps) /\ k + (n + i) = k + n + i
        BY <2>3, <2>4
      <4> QED BY <2>2, <2>3, <4>1
    <3> QED BY <2>2, <2>3, <2>4, <3>1, <3>2
  <2>6. CASE /\ Len(recent) < Rate
             /\ stamps' = Append(recent, clock) /\ permits' = Append(permits, clock)
    <3>1. /\ stamps' \in Seq(Int) /\ Len(stamps') = Len(recent) + 1
          /\ stamps'[Len(recent) + 1] = clock
          /\ \A i \in 1 .. Len(recent) : stamps'[i] = recent[i]
      BY <2>3, <2>4, <2>6
    <3>2. /\ permits' \in Seq(Int) /\ Len(permits') = Len(permits) + 1
          /\ permits'[Len(permits) + 1] = clock
          /\ \A i \in 1 .. Len(permits) : permits'[i] = permits[i]
      BY <2>4, <2>6 DEF BucketFits
    <3>3. clock' = clock
      BY <1>1 DEF Client!Acquire
    <3>4. Client!RateHolds'
      <4>1. ASSUME NEW i \in 1 .. Len(permits') - Rate
            PROVE  permits'[i + Rate] >= permits'[i] + Second
        <5>1. CASE i + Rate <= Len(permits)
          <6>1. i \in 1 .. Len(permits) - Rate /\ i \in 1 .. Len(permits)
                /\ i + Rate \in 1 .. Len(permits)
            BY <2>4, <3>2, <5>1
          <6> QED BY <3>2, <6>1 DEF BucketFits, Client!RateHolds
        <5>2. CASE i + Rate = Len(permits) + 1
          <6>1. i \in 1 .. k + n /\ i \in 1 .. Len(permits)
            BY <2>4, <2>5, <2>6, <5>2
          <6>2. permits'[i] = permits[i] /\ permits[i] <= clock - Second /\ permits[i] \in Int
            BY <2>4, <2>5, <3>2, <6>1
          <6>3. permits'[i + Rate] = clock
            BY <3>2, <5>2
          <6> QED BY <2>4, <6>2, <6>3
        <5>3. i + Rate <= Len(permits) \/ i + Rate = Len(permits) + 1
          BY <2>4, <3>2
        <5> QED BY <5>1, <5>2, <5>3
      <4> QED BY <4>1 DEF Client!RateHolds
    <3>5. /\ k + n \in 0 .. Len(permits') /\ Len(stamps') = Len(permits') - (k + n)
          /\ \A i \in 1 .. Len(stamps') : stamps'[i] = permits'[k + n + i]
          /\ \A i \in 1 .. k + n : permits'[i] <= clock' - Second
      <4>1. ASSUME NEW i \in 1 .. Len(stamps') PROVE stamps'[i] = permits'[k + n + i]
        <5>1. CASE i = Len(recent) + 1
          <6>1. k + n + i = Len(permits) + 1
            BY <2>4, <2>5, <5>1
          <6> QED BY <3>1, <3>2, <5>1, <6>1
        <5>2. CASE i # Len(recent) + 1
          <6>1. i \in 1 .. Len(recent) /\ k + n + i \in 1 .. Len(permits)
            BY <2>4, <2>5, <3>1, <5>2
          <6> QED BY <2>5, <3>1, <3>2, <6>1
        <5> QED BY <5>1, <5>2
      <4>2. ASSUME NEW i \in 1 .. k + n PROVE permits'[i] <= clock' - Second
        <5>1. i \in 1 .. Len(permits)
          BY <2>4, <2>5
        <5> QED BY <2>5, <3>2, <3>3, <5>1
      <4> QED BY <2>4, <2>5, <3>1, <3>2, <4>1, <4>2
    <3>6. Len(stamps') <= Rate
      BY <2>4, <2>5, <2>6, <3>1
    <3> QED BY <2>4, <3>1, <3>2, <3>3, <3>4, <3>5, <3>6 DEF BucketFits
  <2>7. CASE stamps' = recent /\ permits' = permits
    <3>1. clock' = clock
      BY <1>1 DEF Client!Acquire
    <3>2. Client!RateHolds' /\ permits' \in Seq(Int)
      BY <2>7 DEF BucketFits, Client!RateHolds
    <3>3. Len(recent) <= Rate
      BY <2>3, <2>4
    <3> QED BY <2>3, <2>4, <2>5, <2>7, <3>1, <3>2, <3>3 DEF BucketFits
  <2> QED BY <1>1, <2>6, <2>7 DEF Client!Acquire, recent
<1>2. CASE Client!Tick
  <2>1. clock' = clock + 1 /\ UNCHANGED <<stamps, permits>>
    BY <1>2 DEF Client!Tick, Client!bucket
  <2>2. PICK k \in 0 .. Len(permits) :
          /\ Len(stamps) = Len(permits) - k
          /\ \A i \in 1 .. Len(stamps) : stamps[i] = permits[k + i]
          /\ \A i \in 1 .. k : permits[i] <= clock - Second
    BY DEF BucketFits
  <2>3. \A i \in 1 .. k : permits[i] <= clock' - Second
    <3>1. \A i \in 1 .. Len(permits) : permits[i] \in Int
      BY DEF BucketFits
    <3>2. clock \in Int /\ Second \in Int
      BY DEF BucketFits, ClientConfigured
    <3> QED BY <2>1, <2>2, <3>1, <3>2
  <2>4. Client!RateHolds'
    BY <2>1 DEF BucketFits, Client!RateHolds
  <2>5. clock' \in 0 .. MaxTime
    BY <1>2 DEF Client!Tick, BucketFits, ClientConfigured
  <2> QED BY <2>1, <2>2, <2>3, <2>4, <2>5 DEF BucketFits
<1>3. CASE UNCHANGED <<clock, stamps, permits>>
  BY <1>3 DEF BucketFits, Client!RateHolds
<1>4. [Client!Next]_(Client!vars) => \/ \E t \in Client!Threads : Client!Acquire(t)
                           \/ Client!Tick \/ UNCHANGED <<clock, stamps, permits>>
  BY
     DEF Client!Next, Client!vars, Client!bucket, Client!Start, Client!Sleep,
         Client!GetToken, Client!Success, Client!Failure, Client!Retry,
         Client!Unauthorized,
         Client!Exhausted, Client!Switch
<1> QED BY <1>1, <1>2, <1>3, <1>4

\* client.py: threads share the bucket and the clock moves while they wait, yet
\* any Rate + 1 permits in a row span a second; together with what is proved
\* above this is all that OrdersLeaveOnce says, for any number of threads.
THEOREM OrdersLeaveOnceAlways == ASSUME ClientConfigured PROVE Client!Spec => []Client!OrdersLeaveOnce
<1>1. Client!Init => BucketFits
  <2> SUFFICES ASSUME Client!Init PROVE BucketFits
    OBVIOUS
  <2>1. permits \in Seq(Int) /\ stamps \in Seq(Int) /\ Len(permits) = 0 /\ Len(stamps) = 0
    BY DEF Client!Init
  <2> QED BY <2>1 DEF Client!Init, BucketFits, Client!RateHolds, ClientConfigured
<1>2. BucketFits /\ [Client!Next]_(Client!vars) => BucketFits'
  BY BucketFitsStep
<1>3. ClientInv /\ BucketFits => Client!OrdersLeaveOnce
  <2> SUFFICES ASSUME ClientInv, BucketFits
               PROVE  Client!OrdersLeaveOnce
    OBVIOUS
  <2>1. Client!TypeOK
    BY DEF Client!TypeOK, ClientInv, ClientTypes, RequestFits, BucketFits, Client!MaxRetries
  <2>2. Client!RateHolds
    BY DEF BucketFits
  <2>3. Client!OrderSentOnce /\ Client!AnswerIsTrue /\ Client!TokenWasValid
    BY
       DEF ClientInv, ClientTypes, RequestFits, Client!OrderSentOnce, Client!AnswerIsTrue,
           Client!TokenWasValid,
           Client!MaxRetries, Client!Threads
  <2> QED BY <2>1, <2>2, <2>3 DEF Client!OrdersLeaveOnce
<1> QED BY <1>1, <1>2, <1>3, ClientInvHolds, PTL DEF Client!Spec
-----------------------------------------------------------------------------
(* The tokens: one lock per process, one file for all *)

\* A token lives longer than the buffer before its end.
TokensConfigured ==
    /\ ProcessOf \in [Signers -> Processes]
    /\ ModeOf \in [Processes -> {"paper", "prod"}]
    /\ TokenLife \in Nat /\ Buffer \in Nat /\ MinInterval \in Nat /\ TokenLife > Buffer
    /\ None \notin Signers

TokenRecords == [mode : {"none", "partial", "paper", "prod"}, expires : Int]

TokenTypes ==
    /\ tick \in Int /\ read \in [Signers -> Int] /\ issuedAt \in [Processes -> Int]
    /\ signing \in [Signers -> Tokens!Places]
    /\ tokenLock \in [Processes -> Signers \union {None}]
    /\ memory \in [Processes -> TokenRecords] /\ own \in [Processes -> TokenRecords]
    /\ issued \in [Signers -> TokenRecords] /\ held \in [Signers -> TokenRecords]
    /\ file \in TokenRecords /\ tmp \in TokenRecords

Inside == {"checking", "issuing", "writing", "closing", "renaming"}
Saving == {"writing", "closing", "renaming"}

\* The lock of a process is held by the thread that is inside, so what it saw
\* when it decided to issue is still what its process has.
ThreadFits(t) ==
    /\ read[t] <= tick
    /\ signing[t] \in Inside => tokenLock[Tokens!Proc(t)] = t
    /\ signing[t] = "issuing" => ~Tokens!FreshFor(t, own[Tokens!Proc(t)])
    /\ signing[t] \in Saving => issued[t].mode = Tokens!Mode(t) /\ issued[t].expires > read[t] + Buffer
    /\ held[t] # Tokens!NoToken => held[t].mode = Tokens!Mode(t) /\ held[t].expires > read[t] + Buffer

\* Memory holds tokens of the process's own environment, and once the process
\* has saved one it is that.
MemoryFits(p) ==
    /\ memory[p] # Tokens!NoToken => memory[p].mode = ModeOf[p]
    /\ own[p] # Tokens!NoToken => memory[p] = own[p]

TokenInv ==
    /\ TokenTypes /\ ~needless
    /\ \A t \in Signers : ThreadFits(t)
    /\ \A p \in Processes : MemoryFits(p)

\* What load returns is of the process's environment; it replaces nothing that
\* the process has saved.
LEMMA LoadedFits ==
    ASSUME TokensConfigured, TokenInv, NEW t \in Signers
    PROVE  LET p == Tokens!Proc(t) IN
           /\ p \in Processes /\ Tokens!Loaded(p) \in TokenRecords
           /\ Tokens!Loaded(p) # Tokens!NoToken => Tokens!Loaded(p).mode = ModeOf[p]
           /\ own[p] # Tokens!NoToken => Tokens!Loaded(p) = own[p]
  BY
     DEF TokensConfigured, TokenInv, TokenTypes, MemoryFits, Tokens!Proc, Tokens!Loaded,
         Tokens!Readable, Tokens!NoToken, TokenRecords

\* A fresh token is what the caller may use.
LEMMA LookKeeps ==
    ASSUME TokensConfigured, TokenInv, NEW t \in Signers, Tokens!Look(t)
    PROVE  TokenInv'
<1> DEFINE p == Tokens!Proc(t)
<1>1. /\ p \in Processes /\ Tokens!Loaded(p) \in TokenRecords
      /\ Tokens!Loaded(p) # Tokens!NoToken => Tokens!Loaded(p).mode = ModeOf[p]
      /\ own[p] # Tokens!NoToken => Tokens!Loaded(p) = own[p]
  BY LoadedFits
<1>2. TokenTypes'
  BY <1>1
     DEF Tokens!Look, Tokens!Load, Tokens!Return, Tokens!GoTo, TokenInv, TokenTypes,
         Tokens!Places
<1>3. ASSUME NEW u \in Signers
      PROVE  ThreadFits(u)'
  BY <1>1, <1>3
     DEF Tokens!Look, Tokens!Load, Tokens!Return, Tokens!GoTo, TokenInv, TokenTypes,
         ThreadFits, Tokens!FreshFor, Tokens!IsToken,
                    Inside, Saving, Tokens!Proc, Tokens!Mode
<1>4. ASSUME NEW q \in Processes
      PROVE  MemoryFits(q)'
  BY <1>1, <1>4 DEF Tokens!Look, Tokens!Load, TokenInv, TokenTypes, MemoryFits
<1> QED
  BY <1>2, <1>3, <1>4 DEF TokenInv, Tokens!Look

\* Who finds nothing fresh inside the lock finds its process's own token old.
LEMMA CheckKeeps ==
    ASSUME TokensConfigured, TokenInv, NEW t \in Signers, Tokens!Check(t)
    PROVE  TokenInv'
<1> DEFINE p == Tokens!Proc(t)
<1>1. /\ p \in Processes /\ Tokens!Loaded(p) \in TokenRecords
      /\ Tokens!Loaded(p) # Tokens!NoToken => Tokens!Loaded(p).mode = ModeOf[p]
      /\ own[p] # Tokens!NoToken => Tokens!Loaded(p) = own[p]
  BY LoadedFits
<1>2. /\ UNCHANGED <<tick, file, tmp, issuedAt, read, issued, own, needless>>
      /\ memory' = [memory EXCEPT ![p] = Tokens!Loaded(p)]
      /\ signing[t] = "checking"
  BY DEF Tokens!Check, Tokens!Load
<1>3. CASE Tokens!FreshFor(t, Tokens!Loaded(p)) /\ Tokens!Return(t, Tokens!Loaded(p)) /\ Tokens!Unlock(t)
  <2>1. TokenTypes'
    BY <1>1, <1>2, <1>3
       DEF Tokens!Return, Tokens!GoTo, Tokens!Unlock, TokenInv, TokenTypes, Tokens!Places
  <2>2. ASSUME NEW u \in Signers
        PROVE  ThreadFits(u)'
    BY <1>1, <1>2, <1>3, <2>2
       DEF Tokens!Return, Tokens!GoTo, Tokens!Unlock, TokenInv, TokenTypes, ThreadFits, Tokens!FreshFor, Tokens!IsToken,
           Inside, Saving, Tokens!Proc, Tokens!Mode
  <2>3. \A q \in Processes : MemoryFits(q)'
    BY <1>1, <1>2 DEF TokenInv, TokenTypes, MemoryFits
  <2> QED
    BY <1>2, <2>1, <2>2, <2>3 DEF TokenInv
<1>4. CASE Tokens!Return(t, Tokens!NoToken) /\ Tokens!Unlock(t)
  <2>1. TokenTypes'
    BY <1>1, <1>2, <1>4
       DEF Tokens!Return, Tokens!GoTo, Tokens!Unlock, TokenInv, TokenTypes, Tokens!Places,
           TokenRecords, Tokens!NoToken
  <2>2. ASSUME NEW u \in Signers
        PROVE  ThreadFits(u)'
    BY <1>1, <1>2, <1>4, <2>2
       DEF Tokens!Return, Tokens!GoTo, Tokens!Unlock, TokenInv, TokenTypes, ThreadFits, Tokens!FreshFor, Tokens!IsToken,
           Inside, Saving, Tokens!Proc, Tokens!Mode
  <2>3. \A q \in Processes : MemoryFits(q)'
    BY <1>1, <1>2 DEF TokenInv, TokenTypes, MemoryFits
  <2> QED
    BY <1>2, <2>1, <2>2, <2>3 DEF TokenInv
<1>5. CASE ~Tokens!FreshFor(t, Tokens!Loaded(p)) /\ Tokens!GoTo(t, "issuing") /\ UNCHANGED <<tokenLock, held>>
  <2>1. TokenTypes'
    BY <1>1, <1>2, <1>5 DEF Tokens!GoTo, TokenInv, TokenTypes, Tokens!Places
  <2>2. ~Tokens!FreshFor(t, own[p])
    BY <1>1, <1>5 DEF Tokens!FreshFor, Tokens!IsToken
  <2>3. ASSUME NEW u \in Signers
        PROVE  ThreadFits(u)'
    BY <1>2, <1>5, <2>2, <2>3
       DEF Tokens!GoTo, TokenInv, TokenTypes, ThreadFits, Tokens!FreshFor, Inside, Saving, Tokens!Proc, Tokens!Mode
  <2>4. \A q \in Processes : MemoryFits(q)'
    BY <1>1, <1>2 DEF TokenInv, TokenTypes, MemoryFits
  <2> QED
    BY <1>2, <2>1, <2>3, <2>4 DEF TokenInv
<1> QED
  BY <1>3, <1>4, <1>5 DEF Tokens!Check

\* A new token outlives the buffer after the time read before the lock.
LEMMA IssueKeeps ==
    ASSUME TokensConfigured, TokenInv, NEW t \in Signers, Tokens!Issue(t)
    PROVE  TokenInv'
<1>1. UNCHANGED <<tick, memory, file, tmp, read, own>> /\ signing[t] = "issuing"
  BY DEF Tokens!Issue
<1>2. ~needless' /\ Tokens!Proc(t) \in Processes /\ Tokens!Mode(t) \in {"paper", "prod"}
  <2>1. ~Tokens!FreshFor(t, own[Tokens!Proc(t)]) /\ ~needless
    BY <1>1 DEF TokenInv, ThreadFits
  <2>2. \/ needless' = (needless \/ Tokens!FreshFor(t, own[Tokens!Proc(t)]))
        \/ needless' = needless
    BY DEF Tokens!Issue
  <2>3. ~needless'
    BY <2>1, <2>2
  <2>4. Tokens!Proc(t) \in Processes /\ Tokens!Mode(t) \in {"paper", "prod"}
    BY DEF TokensConfigured, Tokens!Proc, Tokens!Mode
  <2> QED
    BY <2>3, <2>4
<1>3. \A q \in Processes : MemoryFits(q)'
  BY <1>1 DEF TokenInv, MemoryFits
<1>4. CASE /\ issued' = [issued EXCEPT ![t] = [mode |-> Tokens!Mode(t), expires |-> tick + TokenLife]]
           /\ issuedAt' = [issuedAt EXCEPT ![Tokens!Proc(t)] = read[t]]
           /\ Tokens!GoTo(t, "writing")
           /\ UNCHANGED <<tokenLock, held>>
  <2>1. TokenTypes'
    BY <1>1, <1>2, <1>4
       DEF Tokens!GoTo, TokenInv, TokenTypes, Tokens!Places, TokenRecords,
           TokensConfigured
  <2>2. tick + TokenLife > read[t] + Buffer
    BY DEF TokenInv, TokenTypes, ThreadFits, TokensConfigured
  <2>3. issued'[t].mode = Tokens!Mode(t) /\ issued'[t].expires = tick + TokenLife
    BY <1>4 DEF TokenInv, TokenTypes
  <2>4. ASSUME NEW u \in Signers
        PROVE  ThreadFits(u)'
    <3>1. CASE u = t
      BY <1>1, <1>4, <2>2, <2>3, <3>1
         DEF Tokens!GoTo, TokenInv, TokenTypes, ThreadFits, Tokens!FreshFor, Inside, Saving, Tokens!Proc, Tokens!Mode
    <3>2. CASE u # t
      BY <1>1, <1>4, <3>2
         DEF Tokens!GoTo, TokenInv, TokenTypes, ThreadFits, Tokens!FreshFor, Inside, Saving, Tokens!Proc, Tokens!Mode
    <3> QED
      BY <3>1, <3>2
  <2> QED
    BY <1>2, <1>3, <2>1, <2>4 DEF TokenInv
<1>5. CASE Tokens!Return(t, Tokens!NoToken) /\ Tokens!Unlock(t) /\ UNCHANGED <<issued, issuedAt>>
  <2>1. TokenTypes'
    BY <1>1, <1>2, <1>5
       DEF Tokens!Return, Tokens!GoTo, Tokens!Unlock, TokenInv, TokenTypes, Tokens!Places,
           TokenRecords, Tokens!NoToken
  <2>2. ASSUME NEW u \in Signers
        PROVE  ThreadFits(u)'
    BY <1>1, <1>5, <2>2
       DEF Tokens!Return, Tokens!GoTo, Tokens!Unlock, TokenInv, TokenTypes, ThreadFits, Tokens!FreshFor, Inside, Saving,
           Tokens!Proc, Tokens!Mode
  <2> QED
    BY <1>2, <1>3, <2>1, <2>2 DEF TokenInv
<1> QED
  BY <1>4, <1>5 DEF Tokens!Issue

\* The thread keeps the lock until its token is in the memory of its process.
LEMMA RenameKeeps ==
    ASSUME TokensConfigured, TokenInv, NEW t \in Signers, Tokens!Rename(t)
    PROVE  TokenInv'
<1>1. /\ UNCHANGED <<tick, issuedAt, read, needless>> /\ signing[t] = "renaming"
      /\ Tokens!Unlock(t) /\ issued' = [issued EXCEPT ![t] = Tokens!NoToken]
  BY DEF Tokens!Rename
<1>2. /\ Tokens!Proc(t) \in Processes /\ issued[t] \in TokenRecords
      /\ issued[t].mode = Tokens!Mode(t) /\ issued[t].expires > read[t] + Buffer
      /\ Tokens!Mode(t) = ModeOf[Tokens!Proc(t)]
  BY <1>1
     DEF TokenInv, TokenTypes, ThreadFits, Saving, TokensConfigured, Tokens!Proc,
         Tokens!Mode
<1>3. Tokens!NoToken \in TokenRecords
  BY DEF Tokens!NoToken, TokenRecords
<1>4. CASE /\ file' = tmp /\ tmp' = Tokens!NoToken
           /\ memory' = [memory EXCEPT ![Tokens!Proc(t)] = issued[t]]
           /\ own' = [own EXCEPT ![Tokens!Proc(t)] = issued[t]]
           /\ Tokens!Return(t, issued[t])
  <2>1. TokenTypes'
    BY <1>1, <1>2, <1>3, <1>4
       DEF Tokens!Return, Tokens!GoTo, Tokens!Unlock, TokenInv, TokenTypes, Tokens!Places
  <2>2. ASSUME NEW u \in Signers
        PROVE  ThreadFits(u)'
    <3>1. CASE u = t
      BY <1>1, <1>2, <1>4, <3>1
         DEF Tokens!Return, Tokens!GoTo, TokenInv, TokenTypes, ThreadFits, Inside, Saving, Tokens!Proc, Tokens!Mode
    <3>2. CASE u # t /\ Tokens!Proc(u) = Tokens!Proc(t)
      BY <1>1, <1>2, <1>4, <3>2
         DEF Tokens!Return, Tokens!GoTo, TokenInv, TokenTypes, ThreadFits, Inside, Saving, Tokens!Proc, Tokens!Mode
    <3>3. CASE u # t /\ Tokens!Proc(u) # Tokens!Proc(t)
      BY <1>1, <1>2, <1>4, <3>3
         DEF Tokens!Return, Tokens!GoTo, Tokens!Unlock, TokenInv, TokenTypes, ThreadFits, Tokens!FreshFor, Inside, Saving,
             Tokens!Proc, Tokens!Mode
    <3> QED
      BY <3>1, <3>2, <3>3
  <2>3. \A q \in Processes : MemoryFits(q)'
    BY <1>2, <1>4 DEF TokenInv, TokenTypes, MemoryFits
  <2> QED
    BY <1>1, <2>1, <2>2, <2>3 DEF TokenInv
<1>5. CASE Tokens!Return(t, Tokens!NoToken) /\ UNCHANGED <<memory, file, tmp, own>>
  <2>1. TokenTypes'
    BY <1>1, <1>2, <1>3, <1>5
       DEF Tokens!Return, Tokens!GoTo, Tokens!Unlock, TokenInv, TokenTypes, Tokens!Places
  <2>2. ASSUME NEW u \in Signers
        PROVE  ThreadFits(u)'
    BY <1>1, <1>5, <2>2
       DEF Tokens!Return, Tokens!GoTo, Tokens!Unlock, TokenInv, TokenTypes, ThreadFits, Tokens!FreshFor, Inside, Saving,
           Tokens!Proc, Tokens!Mode
  <2>3. \A q \in Processes : MemoryFits(q)'
    BY <1>5 DEF TokenInv, MemoryFits
  <2> QED
    BY <1>1, <2>1, <2>2, <2>3 DEF TokenInv
<1> QED
  BY <1>4, <1>5 DEF Tokens!Rename

\* Every step of a thread, of the clock and of a crash keeps it.
LEMMA TokenInvStep ==
    ASSUME TokensConfigured, TokenInv, [Tokens!Next]_(Tokens!vars)
    PROVE  TokenInv'
<1> USE DEF TokenInv
<1>1. ASSUME NEW t \in Signers, Tokens!Begin(t)
      PROVE  TokenInv'
  <2>1. TokenTypes' /\ ~needless'
    BY <1>1
       DEF Tokens!Begin, Tokens!GoTo, TokenTypes, Tokens!Places, TokenRecords,
           Tokens!NoToken
  <2>2. ASSUME NEW u \in Signers
        PROVE  ThreadFits(u)'
    BY <1>1, <2>2
       DEF Tokens!Begin, Tokens!GoTo, TokenTypes, ThreadFits, Tokens!FreshFor, Inside,
           Saving, Tokens!Proc, Tokens!Mode
  <2>3. \A q \in Processes : MemoryFits(q)'
    BY <1>1 DEF Tokens!Begin, MemoryFits
  <2> QED
    BY <2>1, <2>2, <2>3
<1>2. ASSUME NEW t \in Signers, Tokens!Lock(t)
      PROVE  TokenInv'
  <2>1. TokenTypes' /\ ~needless'
    BY <1>2
       DEF Tokens!Lock, Tokens!GoTo, TokenTypes, Tokens!Places, TokensConfigured,
           Tokens!Proc
  <2>2. ASSUME NEW u \in Signers
        PROVE  ThreadFits(u)'
    <3>1. tokenLock[Tokens!Proc(t)] = None /\ Tokens!Proc(t) \in Processes /\ Tokens!Proc(u) \in Processes
      BY <1>2 DEF Tokens!Lock, Tokens!Proc, TokensConfigured
    <3>2. tokenLock[Tokens!Proc(t)] # u
      BY <3>1 DEF TokensConfigured
    <3> QED
      BY <1>2, <3>1, <3>2
         DEF Tokens!Lock, Tokens!GoTo, TokenTypes, ThreadFits, Tokens!FreshFor, Inside, Saving, Tokens!Proc, Tokens!Mode
  <2>3. \A q \in Processes : MemoryFits(q)'
    BY <1>2 DEF Tokens!Lock, MemoryFits
  <2> QED
    BY <2>1, <2>2, <2>3
<1>3. ASSUME NEW t \in Signers, Tokens!OpenTmp(t) \/ Tokens!WriteTmp(t)
      PROVE  TokenInv'
  <2>1. TokenTypes' /\ ~needless'
    BY <1>3
       DEF Tokens!OpenTmp, Tokens!WriteTmp, Tokens!GoTo, TokenTypes, Tokens!Places,
           TokenRecords, Tokens!Partial
  <2>2. ASSUME NEW u \in Signers
        PROVE  ThreadFits(u)'
    BY <1>3, <2>2
       DEF Tokens!OpenTmp, Tokens!WriteTmp, Tokens!GoTo, TokenTypes, ThreadFits,
           Tokens!FreshFor, Inside, Saving,
                      Tokens!Proc, Tokens!Mode
  <2>3. \A q \in Processes : MemoryFits(q)'
    BY <1>3 DEF Tokens!OpenTmp, Tokens!WriteTmp, MemoryFits
  <2> QED
    BY <2>1, <2>2, <2>3
<1>4. ASSUME NEW p \in Processes, Tokens!Crash(p)
      PROVE  TokenInv'
  <2>1. TokenTypes' /\ ~needless'
    BY <1>4
       DEF Tokens!Crash, TokenTypes, Tokens!Places, TokenRecords, Tokens!NoToken,
           TokensConfigured
  <2>2. ASSUME NEW u \in Signers
        PROVE  ThreadFits(u)'
    <3>1. CASE Tokens!Proc(u) = p
      BY <1>4, <3>1 DEF Tokens!Crash, TokenTypes, ThreadFits, Inside, Saving
    <3>2. CASE Tokens!Proc(u) # p
      BY <1>4, <3>2
         DEF Tokens!Crash, TokenTypes, ThreadFits, Tokens!FreshFor, Inside, Saving,
             Tokens!Proc, Tokens!Mode,
                        TokensConfigured
    <3> QED
      BY <3>1, <3>2
  <2>3. \A q \in Processes : MemoryFits(q)'
    BY <1>4 DEF Tokens!Crash, TokenTypes, MemoryFits
  <2> QED
    BY <2>1, <2>2, <2>3
<1>5. CASE Tokens!Tick \/ UNCHANGED Tokens!vars
  BY <1>5 DEF Tokens!Tick, Tokens!vars, TokenTypes, ThreadFits, Tokens!FreshFor, MemoryFits
<1> QED
  BY <1>1, <1>2, <1>3, <1>4, <1>5, LookKeeps, CheckKeeps, IssueKeeps, RenameKeeps
     DEF Tokens!Next

\* It holds at the start and every step keeps it.
LEMMA TokenInvHolds == ASSUME TokensConfigured PROVE Tokens!Spec => []TokenInv
<1>1. ASSUME Tokens!Init
      PROVE  TokenInv
  <2>1. TokenTypes /\ ~needless
    BY <1>1
       DEF Tokens!Init, TokenTypes, TokenRecords, Tokens!NoToken, Tokens!Places,
           TokensConfigured
  <2>2. \A t \in Signers : ThreadFits(t)
    BY <1>1 DEF Tokens!Init, ThreadFits, Inside, Saving
  <2>3. \A p \in Processes : MemoryFits(p)
    BY <1>1 DEF Tokens!Init, MemoryFits
  <2> QED
    BY <2>1, <2>2, <2>3 DEF TokenInv
<1>2. TokenInv /\ [Tokens!Next]_(Tokens!vars) => TokenInv'
  BY TokenInvStep
<1> QED
  BY <1>1, <1>2, PTL DEF Tokens!Spec

\* kis_adapter.py:392: whatever processes of both environments write the shared
\* file, no request is signed with a token of the other environment, and every
\* token is good for longer than the buffer after its caller asked.
THEOREM TokensAreUsable ==
    ASSUME TokensConfigured PROVE Tokens!Spec => [](Tokens!TokenOfMyMode /\ Tokens!HeldIsUsable)
<1>1. TokenInv => Tokens!TokenOfMyMode /\ Tokens!HeldIsUsable
  BY DEF TokenInv, ThreadFits, Tokens!TokenOfMyMode, Tokens!HeldIsUsable
<1> QED
  BY <1>1, TokenInvHolds, PTL

\* No thread issues a token while its process has saved one that is good for it.
THEOREM NoNeedlessIssueAlways == ASSUME TokensConfigured PROVE Tokens!Spec => []Tokens!NoNeedlessIssue
<1>1. TokenInv => Tokens!NoNeedlessIssue
  BY DEF TokenInv, Tokens!NoNeedlessIssue
<1> QED
  BY <1>1, TokenInvHolds, PTL

\* No token is from the future, and a lock is held by a thread of its process.
Timely ==
    /\ tick \in Nat
    /\ file.expires <= tick + TokenLife /\ tmp.expires <= tick + TokenLife
    /\ \A p \in Processes : /\ memory[p].expires <= tick + TokenLife
                            /\ tokenLock[p] # None => ProcessOf[tokenLock[p]] = p
    /\ \A t \in Signers : issued[t].expires <= tick + TokenLife

\* A token is issued for a lifetime from now on, and then only handed on.
LEMMA TimelyStep ==
    ASSUME TokensConfigured, TokenInv, Timely, [Tokens!Next]_(Tokens!vars)
    PROVE  Timely'
<1> USE DEF Timely, TokenInv, TokenTypes
<1>1. ASSUME NEW t \in Signers, Tokens!Proc(t) \in Processes,
             \/ Tokens!Begin(t) \/ Tokens!Look(t) \/ Tokens!Lock(t) \/ Tokens!Check(t) \/ Tokens!OpenTmp(t) \/ Tokens!WriteTmp(t)
      PROVE  Timely'
  <2>1. UNCHANGED <<tick, file, issued>> /\ tmp' \in {tmp, Tokens!Partial, issued[t]}
    BY <1>1
       DEF Tokens!Begin, Tokens!Look, Tokens!Lock, Tokens!Check, Tokens!OpenTmp,
           Tokens!WriteTmp, Tokens!Load
  <2>2. /\ memory' = memory \/ memory' = [memory EXCEPT ![Tokens!Proc(t)] = Tokens!Loaded(Tokens!Proc(t))]
        /\ \/ tokenLock' = tokenLock
           \/ tokenLock' = [tokenLock EXCEPT ![Tokens!Proc(t)] = t]
           \/ tokenLock' = [tokenLock EXCEPT ![Tokens!Proc(t)] = None]
    BY <1>1
       DEF Tokens!Begin, Tokens!Look, Tokens!Lock, Tokens!Check, Tokens!OpenTmp,
           Tokens!WriteTmp, Tokens!Load, Tokens!Unlock
  <2>3. Tokens!Loaded(Tokens!Proc(t)) \in {memory[Tokens!Proc(t)], file, Tokens!NoToken}
    BY DEF Tokens!Loaded
  <2>4. Tokens!Partial.expires = 0 /\ Tokens!NoToken.expires = 0 /\ 0 <= tick + TokenLife
    BY DEF Tokens!Partial, Tokens!NoToken, TokensConfigured
  <2>5. tmp'.expires <= tick + TokenLife
    BY <2>1, <2>4
  <2>6. \A p \in Processes : memory'[p].expires <= tick + TokenLife
    <3>1. /\ memory[Tokens!Proc(t)].expires <= tick + TokenLife /\ file.expires <= tick + TokenLife
          /\ Tokens!NoToken.expires <= tick + TokenLife
      BY <1>1, <2>4
    <3>2. Tokens!Loaded(Tokens!Proc(t)).expires <= tick + TokenLife
      BY <2>3, <3>1
    <3>3. \A p \in Processes : memory'[p] \in {memory[p], Tokens!Loaded(Tokens!Proc(t))}
      BY <2>2
    <3> QED BY <3>2, <3>3
  <2>7. \A p \in Processes : tokenLock'[p] # None => ProcessOf[tokenLock'[p]] = p
    <3>1. \A p \in Processes :
            \/ tokenLock'[p] \in {tokenLock[p], None}
            \/ p = Tokens!Proc(t) /\ tokenLock'[p] = t
      BY <2>2
    <3> QED BY <3>1 DEF Tokens!Proc
  <2> QED BY <2>1, <2>5, <2>6, <2>7
<1>2. ASSUME NEW t \in Signers, Tokens!Proc(t) \in Processes, Tokens!Issue(t)
      PROVE  Timely'
  <2>1. /\ UNCHANGED <<tick, file, tmp, memory>>
        /\ \/ issued' = issued
           \/ issued' = [issued EXCEPT ![t] = [mode |-> Tokens!Mode(t), expires |-> tick + TokenLife]]
        /\ tokenLock' = tokenLock \/ tokenLock' = [tokenLock EXCEPT ![Tokens!Proc(t)] = None]
    BY <1>2 DEF Tokens!Issue, Tokens!Unlock
  <2>2. \A u \in Signers : issued'[u].expires <= tick + TokenLife
    BY <2>1 DEF TokensConfigured
  <2> QED BY <1>2, <2>1, <2>2
<1>3. ASSUME NEW t \in Signers, Tokens!Proc(t) \in Processes, Tokens!Rename(t)
      PROVE  Timely'
  <2>1. /\ tick' = tick /\ tokenLock' = [tokenLock EXCEPT ![Tokens!Proc(t)] = None]
        /\ issued' = [issued EXCEPT ![t] = Tokens!NoToken]
        /\ file' \in {file, tmp} /\ tmp' \in {tmp, Tokens!NoToken}
        /\ memory' = memory \/ memory' = [memory EXCEPT ![Tokens!Proc(t)] = issued[t]]
    BY <1>3 DEF Tokens!Rename, Tokens!Unlock
  <2>2. Tokens!NoToken.expires = 0 /\ 0 <= tick + TokenLife
    BY DEF Tokens!NoToken, TokensConfigured
  <2> QED BY <1>3, <2>1, <2>2
<1>4. ASSUME NEW p \in Processes, Tokens!Crash(p)
      PROVE  Timely'
  <2>1. /\ UNCHANGED <<tick, file, tmp>> /\ tokenLock' = [tokenLock EXCEPT ![p] = None]
        /\ memory' = [memory EXCEPT ![p] = Tokens!NoToken]
        /\ issued' = [u \in Signers |-> IF Tokens!Proc(u) = p THEN Tokens!NoToken ELSE issued[u]]
    BY <1>4 DEF Tokens!Crash
  <2>2. Tokens!NoToken.expires = 0 /\ 0 <= tick + TokenLife
    BY DEF Tokens!NoToken, TokensConfigured
  <2> QED BY <2>1, <2>2
<1>5. CASE Tokens!Tick
  <2>1. tick' = tick + 1 /\ UNCHANGED <<file, tmp, memory, tokenLock, issued>>
    BY <1>5 DEF Tokens!Tick
  <2>2. /\ file.expires \in Int /\ tmp.expires \in Int /\ tick + TokenLife \in Int
        /\ tick' + TokenLife = tick + TokenLife + 1
        /\ \A p \in Processes : memory[p].expires \in Int
        /\ \A t \in Signers : issued[t].expires \in Int
    BY <2>1 DEF TokenRecords, TokensConfigured
  <2>3. file'.expires <= tick' + TokenLife /\ tmp'.expires <= tick' + TokenLife
    BY <2>1, <2>2
  <2>4. ASSUME NEW p \in Processes PROVE memory'[p].expires <= tick' + TokenLife
    <3>1. memory'[p] = memory[p] /\ memory[p].expires <= tick + TokenLife
      BY <2>1
    <3> QED BY <2>2, <3>1
  <2>5. ASSUME NEW t \in Signers PROVE issued'[t].expires <= tick' + TokenLife
    <3>1. issued'[t] = issued[t] /\ issued[t].expires <= tick + TokenLife
      BY <2>1
    <3> QED BY <2>2, <3>1
  <2>6. tick' \in Nat /\ tokenLock' = tokenLock
    BY <2>1
  <2> QED BY <2>3, <2>4, <2>5, <2>6
<1>6. CASE UNCHANGED Tokens!vars
  BY <1>6 DEF Tokens!vars
<1>7. \A t \in Signers : Tokens!Proc(t) \in Processes
  BY DEF Tokens!Proc, TokensConfigured
<1> QED
  BY <1>1, <1>2, <1>3, <1>4, <1>5, <1>6, <1>7 DEF Tokens!Next

\* kis_adapter.py: all of it at once, whatever threads, processes and crashes
\* share the file.
THEOREM TokensAreSharedAlways == ASSUME TokensConfigured PROVE Tokens!Spec => []Tokens!TokensAreShared
<1>1. Tokens!Init => Timely
  BY DEF Tokens!Init, Timely, Tokens!NoToken, TokensConfigured
<1>2. TokenInv /\ Timely /\ [Tokens!Next]_(Tokens!vars) => Timely'
  BY TimelyStep
<1>3. TokenInv /\ Timely => Tokens!TypeOK
  <2> SUFFICES ASSUME TokenInv, Timely PROVE Tokens!TypeOK
    OBVIOUS
  <2>1. \A p \in Processes : /\ memory[p] # Tokens!NoToken => memory[p].expires <= tick + TokenLife
                             /\ tokenLock[p] # None => ProcessOf[tokenLock[p]] = p
    BY DEF Timely
  <2>2. \A t \in Signers : signing[t] \in Tokens!Places /\ (signing[t] \in Inside => tokenLock[Tokens!Proc(t)] = t)
    BY DEF TokenInv, TokenTypes, ThreadFits
  <2> QED BY <2>1, <2>2 DEF Tokens!TypeOK, Inside
<1> QED
  BY <1>1, <1>2, <1>3, TokenInvHolds, TokensAreUsable, NoNeedlessIssueAlways, PTL
     DEF Tokens!Spec, Tokens!TokensAreShared
-----------------------------------------------------------------------------
(* What the run of the order path checks, for any constants.  A step of    *)
(* the run is a step of the component that part names and leaves what the  *)
(* other three own alone, so each component sees its own behaviour.        *)

\* The approvals of a run are a behaviour of ApprovalProviders.
LEMMA ProvidersBehave == Spec => Providers!Spec
<1>1. Init => Providers!Init
  BY DEF Init
<1>2. [Next]_vars => [Providers!Next]_(Providers!vars)
  BY DEF Next, vars, Approval, Stop, Broker, Token, approval, Providers!vars
<1> QED
  BY <1>1, <1>2, PTL DEF Spec, Providers!Spec

\* The frames of a run are a behaviour of EmergencyStop.
LEMMA StoppingBehaves == Spec => Stopping!Spec
<1>1. Init => Stopping!Init
  BY DEF Init
<1>2. [Next]_vars => [Stopping!Next]_(Stopping!vars)
  BY DEF Next, vars, Approval, Stop, Broker, Token, stop, Stopping!vars
<1> QED
  BY <1>1, <1>2, PTL DEF Spec, Stopping!Spec

\* The requests of a run are a behaviour of KisClient.
LEMMA ClientBehaves == Spec => Client!Spec
<1>1. Init => Client!Init
  BY DEF Init
<1>2. [Next]_vars => [Client!Next]_(Client!vars)
  BY
     DEF Next, vars, Approval, Stop, Broker, Token, client, Client!vars, Client!bucket,
         Client!retry, Client!wire
<1> QED
  BY <1>1, <1>2, PTL DEF Spec, Client!Spec

\* The token caches of a run are a behaviour of KisTokens.
LEMMA TokensBehave == Spec => Tokens!Spec
<1>1. Init => Tokens!Init
  BY DEF Init
<1>2. [Next]_vars => [Tokens!Next]_(Tokens!vars)
  BY DEF Next, vars, Approval, Stop, Broker, Token, tokens, Tokens!vars
<1> QED
  BY <1>1, <1>2, PTL DEF Spec, Tokens!Spec

\* approval_preapproval.py, approval_cli.py, approval_composite.py: no window
\* approves more than it was opened for or an order it does not cover, and no live
\* order passes without the operator, for any windows, requests and chains.
THEOREM WindowsBindOrders ==
    ASSUME WindowsConfigured, SomeoneIsAsked PROVE Spec => []ApprovalsAreCovered
<1>1. Providers!Spec => []Providers!ApprovalsAreCovered
  BY ApprovalsAreCoveredAlways
<1>2. Providers!ApprovalsAreCovered => ApprovalsAreCovered
  BY DEF ApprovalsAreCovered
<1> QED
  BY <1>1, <1>2, ProvidersBehave, PTL

\* risk/_state.py, kill_switch.py, shutdown.py: whoever asks for the stop and
\* whenever, hooks run at most once and in order, and whoever waits for the lock
\* gets it, but for a SIGINT handler on top of the frame that holds it.
THEOREM StopIsOne ==
    ASSUME Reasoned, FewHooks PROVE Spec => []OneStopForAll
<1>1. Stopping!Spec => []Stopping!OneStopForAll
  BY OneStopForAllAlways
<1>2. Stopping!OneStopForAll => OneStopForAll
  BY DEF OneStopForAll
<1> QED
  BY <1>1, <1>2, StoppingBehaves, PTL

\* brokers/kis/client.py: any number of threads share the rate; an order leaves at
\* most once and is called accepted only if it arrived, with a token that was valid.
THEOREM OrdersLeaveOnceHere ==
    ASSUME ClientConfigured PROVE Spec => []OrdersLeaveOnce
<1>1. Client!Spec => []Client!OrdersLeaveOnce
  BY OrdersLeaveOnceAlways
<1>2. Client!OrdersLeaveOnce => OrdersLeaveOnce
  BY DEF OrdersLeaveOnce
<1> QED
  BY <1>1, <1>2, ClientBehaves, PTL

\* brokers/kis_adapter.py: any threads and processes that share the token file sign
\* with a usable token of their own environment and issue none that was not needed.
THEOREM TokensAreSharedHere ==
    ASSUME TokensConfigured PROVE Spec => []TokensAreShared
<1>1. Tokens!Spec => []Tokens!TokensAreShared
  BY TokensAreSharedAlways
<1>2. Tokens!TokensAreShared => TokensAreShared
  BY DEF TokensAreShared
<1> QED
  BY <1>1, <1>2, TokensBehave, PTL

\* approval_preapproval.py, risk/_state.py: what was decided is not taken back: no
\* step uses a window that was revoked before it, and none replaces the first
\* reason of a stop or shows a stop without one.
THEOREM DecisionsStandAlways ==
    ASSUME WindowsConfigured, Reasoned PROVE Spec => DecisionsStand
<1>1. Providers!Spec => Providers!RevokedIsFinal
  BY RevokedIsFinalAlways
<1>2. Stopping!Spec => Stopping!FirstReasonStands
  BY FirstReasonAlways
<1> QED
  BY <1>1, <1>2, ProvidersBehave, StoppingBehaves DEF DecisionsStand
=============================================================================
