------------------------------ MODULE KisTokens -------------------------------
(***************************************************************************)
(* src/src/brokers/kis_adapter.py: how threads of several processes come   *)
(* by a KIS access token.  A process keeps it in memory and in a file that *)
(* all processes of the same account share; one lock per process orders    *)
(* who issues a new one, at most every MinInterval seconds.                *)
(*                                                                         *)
(* The time is read before the lock is waited for, and used after it.  The *)
(* file is replaced by renaming one temporary file, whose name all the     *)
(* processes share.                                                        *)
(***************************************************************************)
EXTENDS Integers

CONSTANTS Threads, Processes,
          ProcessOf,    \* Threads -> Processes
          ModeOf,       \* Processes -> "paper" or "prod"
          Lifetime,     \* expires_in of a token
          Buffer,       \* TOKEN_REFRESH_BUFFER_SEC
          MinInterval,  \* MIN_TOKEN_ISSUE_INTERVAL_SEC
          MaxClock, None

VARIABLES clock,
          memory,       \* Processes -> the token of _TokenCache, or NoToken
          file,         \* the cache file: a token, NoToken or Partial
          tmp,          \* the temporary file, likewise
          issuedAt,     \* Processes -> _last_token_issue_at
          lock,         \* Processes -> the thread that holds _token_issue_lock
          at,           \* Threads -> where _ensure_access_token is
          now,          \* Threads -> the time it read
          new,          \* Threads -> the token it issued
          held,         \* Threads -> the token of its headers
          own,          \* history: Processes -> the token it saved last
          needless      \* history: a thread issued one while that was good

vars == <<clock, memory, file, tmp, issuedAt, lock, at, now, new, held, own, needless>>

Places == {"idle", "looking", "locking", "checking", "issuing", "writing", "closing",
           "renaming"}

Proc(t) == ProcessOf[t]
Mode(t) == ModeOf[Proc(t)]
NoToken == [mode |-> "none", expires |-> 0]
Partial == [mode |-> "partial", expires |-> 0]
IsToken(x) == x \notin {NoToken, Partial}

TypeOK ==
    /\ \A p \in Processes :
           /\ memory[p] # NoToken => memory[p].expires <= clock + Lifetime
           /\ lock[p] # None => ProcessOf[lock[p]] = p
    /\ \A t \in Threads :
           /\ at[t] \in Places
           /\ at[t] \in {"checking", "issuing", "writing", "closing", "renaming"} =>
                  lock[Proc(t)] = t

Init ==
    /\ clock = 0
    /\ memory = [p \in Processes |-> NoToken]
    /\ file = NoToken /\ tmp = NoToken
    /\ issuedAt = [p \in Processes |-> -MinInterval]
    /\ lock = [p \in Processes |-> None]
    /\ at = [t \in Threads |-> "idle"]
    /\ now = [t \in Threads |-> 0]
    /\ new = [t \in Threads |-> NoToken]
    /\ held = [t \in Threads |-> NoToken]
    /\ own = [p \in Processes |-> NoToken]
    /\ needless = FALSE

GoTo(t, place) == at' = [at EXCEPT ![t] = place]
-----------------------------------------------------------------------------
(* _TokenCache.load *)

\* The file is of use when it parses and is of this process's mode.
Readable(p) == IsToken(file) /\ file.mode = ModeOf[p]

\* What load returns: the token in memory, even an old one, before the file.
Loaded(p) ==
    IF memory[p] # NoToken THEN memory[p]
    ELSE IF Readable(p) THEN file ELSE NoToken

FreshFor(t, token) == IsToken(token) /\ token.expires > now[t] + Buffer

Load(t) == memory' = [memory EXCEPT ![Proc(t)] = Loaded(Proc(t))]

\* _ensure_access_token is called: the time is read.
Begin(t) ==
    /\ at[t] = "idle"
    /\ now' = [now EXCEPT ![t] = clock]
    /\ held' = [held EXCEPT ![t] = NoToken]
    /\ GoTo(t, "looking")
    /\ UNCHANGED <<clock, memory, file, tmp, issuedAt, lock, new, own, needless>>

Return(t, token) ==
    /\ held' = [held EXCEPT ![t] = token]
    /\ GoTo(t, "idle")

Look(t) ==
    /\ at[t] = "looking"
    /\ Load(t)
    /\ IF FreshFor(t, Loaded(Proc(t)))
       THEN Return(t, Loaded(Proc(t)))
       ELSE GoTo(t, "locking") /\ UNCHANGED held
    /\ UNCHANGED <<clock, file, tmp, issuedAt, lock, now, new, own, needless>>

Lock(t) ==
    /\ at[t] = "locking"
    /\ lock[Proc(t)] = None
    /\ lock' = [lock EXCEPT ![Proc(t)] = t]
    /\ GoTo(t, "checking")
    /\ UNCHANGED <<clock, memory, file, tmp, issuedAt, now, new, held, own, needless>>

Unlock(t) == lock' = [lock EXCEPT ![Proc(t)] = None]

\* Mutant: the cache is not looked at again inside the lock.
CheckOnce(t) ==
    /\ at[t] = "checking"
    /\ \/ now[t] - issuedAt[Proc(t)] < MinInterval /\ Return(t, NoToken) /\ Unlock(t)
       \/ /\ now[t] - issuedAt[Proc(t)] >= MinInterval
          /\ GoTo(t, "issuing") /\ UNCHANGED <<lock, held>>
    /\ UNCHANGED <<clock, memory, file, tmp, issuedAt, now, new, own, needless>>

\* Inside the lock the cache is looked at again, then the interval.
Check(t) ==
    /\ at[t] = "checking"
    /\ Load(t)
    /\ IF FreshFor(t, Loaded(Proc(t)))
       THEN Return(t, Loaded(Proc(t))) /\ Unlock(t)
       ELSE \/ /\ now[t] - issuedAt[Proc(t)] < MinInterval
               /\ Return(t, NoToken) /\ Unlock(t)
            \/ /\ now[t] - issuedAt[Proc(t)] >= MinInterval
               /\ GoTo(t, "issuing") /\ UNCHANGED <<lock, held>>
    /\ UNCHANGED <<clock, file, tmp, issuedAt, now, new, own, needless>>

\* _issue_token: a new token, or an error that leaves the lock.
Issue(t) ==
    /\ at[t] = "issuing"
    /\ \/ /\ new' = [new EXCEPT ![t] = [mode |-> Mode(t), expires |-> clock + Lifetime]]
          /\ issuedAt' = [issuedAt EXCEPT ![Proc(t)] = now[t]]
          /\ needless' = (needless \/ FreshFor(t, own[Proc(t)]))
          /\ GoTo(t, "writing")
          /\ UNCHANGED <<lock, held>>
       \/ /\ Return(t, NoToken) /\ Unlock(t)
          /\ UNCHANGED <<new, issuedAt, own, needless>>
    /\ UNCHANGED <<clock, memory, file, tmp, now, own>>
-----------------------------------------------------------------------------
(* _TokenCache.save *)

OpenTmp(t) ==
    /\ at[t] = "writing"
    /\ tmp' = Partial
    /\ GoTo(t, "closing")
    /\ UNCHANGED <<clock, memory, file, issuedAt, lock, now, new, held, own, needless>>

WriteTmp(t) ==
    /\ at[t] = "closing"
    /\ tmp' = new[t]
    /\ GoTo(t, "renaming")
    /\ UNCHANGED <<clock, memory, file, issuedAt, lock, now, new, held, own, needless>>

\* rename replaces the file by whatever the temporary file holds by now; when
\* another process has renamed it already, FileNotFoundError leaves the caller
\* without the token, and the process without a memory of it.
Rename(t) ==
    /\ at[t] = "renaming"
    /\ \/ /\ tmp # NoToken
          /\ file' = tmp /\ tmp' = NoToken
          /\ memory' = [memory EXCEPT ![Proc(t)] = new[t]]
          /\ own' = [own EXCEPT ![Proc(t)] = new[t]]
          /\ Return(t, new[t])
       \/ /\ tmp = NoToken
          /\ Return(t, NoToken)
          /\ UNCHANGED <<memory, file, tmp, own>>
    /\ Unlock(t)
    /\ new' = [new EXCEPT ![t] = NoToken]
    /\ UNCHANGED <<clock, issuedAt, now, needless>>

\* A process dies, and is started again with an empty memory.
Crash(p) ==
    /\ memory' = [memory EXCEPT ![p] = NoToken]
    /\ issuedAt' = [issuedAt EXCEPT ![p] = -MinInterval]
    /\ lock' = [lock EXCEPT ![p] = None]
    /\ at' = [t \in Threads |-> IF Proc(t) = p THEN "idle" ELSE at[t]]
    /\ new' = [t \in Threads |-> IF Proc(t) = p THEN NoToken ELSE new[t]]
    /\ held' = [t \in Threads |-> IF Proc(t) = p THEN NoToken ELSE held[t]]
    /\ own' = [own EXCEPT ![p] = NoToken]
    /\ UNCHANGED <<clock, file, tmp, now, needless>>

Tick ==
    /\ clock < MaxClock
    /\ clock' = clock + 1
    /\ UNCHANGED <<memory, file, tmp, issuedAt, lock, at, now, new, held, own, needless>>

Next ==
    \/ \E t \in Threads :
          \/ Begin(t) \/ Look(t) \/ Lock(t) \/ Check(t) \/ Issue(t)
          \/ OpenTmp(t) \/ WriteTmp(t) \/ Rename(t)
    \/ \E p \in Processes : Crash(p)
    \/ Tick

Spec == Init /\ [][Next]_vars
-----------------------------------------------------------------------------
(* What must hold *)

\* A request is signed with a token of the adapter's own environment, whoever
\* wrote the shared file last: a paper token never reaches the live API.
TokenOfMyMode == \A t \in Threads : held[t] # NoToken => held[t].mode = Mode(t)

\* Threads that find the same token expired issue one new one between them:
\* nobody issues while its process has saved one that is good enough for it.
NoNeedlessIssue == ~needless

\* The token of a header is good for longer than the buffer after the moment
\* the caller asked, or was issued for this call.
HeldIsUsable ==
    \A t \in Threads : held[t] # NoToken => held[t].expires > now[t] + Buffer

\* All of these: what the processes that share a token file may count on.
TokensAreShared == TypeOK /\ TokenOfMyMode /\ NoNeedlessIssue /\ HeldIsUsable
=============================================================================
