------------------------- MODULE SessionStart_proofs -------------------------
(***************************************************************************)
(* Proofs about SessionStart: the quota of registrations is conserved, the *)
(* process panics only for a malformed line or after a time limit, a       *)
(* session proxies only for a server that accepted its miner, one resumed  *)
(* after an upgrade is of the kind that was saved, and every variable      *)
(* keeps its type.                                                         *)
(***************************************************************************)
EXTENDS SessionStart, FiniteSetTheorems, TLAPS

-----------------------------------------------------------------------------
\* What a session knows: the steps of its handshake and the requests it saved.
IsKnown(k) ==
    /\ DOMAIN k = {"protocolType", "isBTCAgent", "isNiceHashClient", "jsonRPCVersion",
                   "versionMask", "subscribe", "authorize", "subaccountName", "stat"}
    /\ k.stat \in {"connected", "subscribed", "authorized"}
    /\ k.stat # "connected" => k.subscribe # NoRequest
    /\ k.stat = "authorized" => k.authorize # NoRequest

Pcs == {"naming", "finding", "registering", "counting", "creating", "watching",
        "waiting", "woken", "connecting", "authorizing", "running", "stopped"}

IsSession(r) ==
    /\ DOMAIN r = {"pc", "k", "request", "coin", "autoReg", "held", "conn", "reader",
                   "attempts", "reconnects", "late"}
    /\ IsKnown(r.k)
    /\ r.pc \in Pcs
    /\ r.held \in BOOLEAN /\ r.late \in BOOLEAN /\ r.reader \in BOOLEAN
    /\ r.conn \in {0} \cup Attempts
    /\ r.attempts \in Nat /\ r.reconnects \in Nat

\* How the parts of a session go together.  The attempt that is connected, or
\* that comes next, is told from its numbers of attempts and reconnections.
Consistent(r) ==
    /\ r.held => r.pc \in {"creating", "watching", "waiting", "woken"}
    /\ r.request # NoRequest => r.pc = "naming" \/ r.late
    /\ r.pc = "naming" => ~r.late
    /\ r.pc \notin {"naming", "stopped"} => r.k.stat = "authorized"
    /\ r.pc \in {"connecting", "authorizing", "running"} =>
        /\ r.attempts \in 1 .. MaxAttempts /\ r.reconnects \in 0 .. MaxReconnects
        /\ r.reconnects = 0 => r.attempts = 1
    /\ r.pc = "connecting" => r.conn < AttemptOf(r)
    /\ r.pc \in {"authorizing", "running"} => r.conn = AttemptOf(r)
    /\ r.pc \in {"naming", "finding", "registering", "counting", "creating", "watching",
                 "waiting", "woken"} => r.conn = 0 /\ r.reconnects = 0

IsConn(c) ==
    /\ DOMAIN c = {"todo", "id", "inOrder", "accepted", "open"}
    /\ c.id \in BOOLEAN /\ c.inOrder \in BOOLEAN /\ c.accepted \in BOOLEAN

IsReader(g) ==
    /\ DOMAIN g = {"session", "attempt", "on", "authMsgCounter", "result"}
    /\ g.session \in Sessions /\ g.attempt \in Attempts /\ g.on \in Attempts
    /\ g.result \in {"none", "accepted", "failed"}

Types ==
    /\ DOMAIN session = Sessions
    /\ \A s \in Sessions : IsSession(session[s])
    /\ DOMAIN conns = Sessions
    /\ \A s \in Sessions : DOMAIN conns[s] = Attempts
    /\ \A s \in Sessions : \A a \in Attempts : IsConn(conns[s][a])
    /\ \A g \in readers : IsReader(g)
    /\ autoRegAllowUsers \in Int
    /\ panics \in Nat

\* The server that a connection leads to uses the session's ID, as far as the
\* responses tell.
Agrees(k, conn) == ComparesID(k) => conn.id \/ ~conn.inOrder

Matches(s) == Agrees(session[s].k, conns[s][session[s].conn]) \/ session[s].late

\* A goroutine that reads responses belongs to its session's current attempt,
\* unless it outlived a time limit; a result is for the current attempt only.
ReaderFits(g) ==
    LET r == session[g.session]
        conn == conns[g.session][r.conn]
    IN /\ g.attempt <= r.conn
       /\ g.attempt = r.conn => g.on = r.conn
       /\ ~r.late => r.pc = "authorizing" /\ r.reader /\ g.attempt = r.conn
       /\ g.result # "none" => r.pc = "authorizing" /\ g.attempt = r.conn
       /\ g.result = "accepted" => conn.accepted /\ Matches(g.session)
       /\ ~r.late /\ g.result = "none" => Agrees(r.k, conn) \/ conn.todo \in InOrder

\* Two goroutines are of two attempts.
ReadersDiffer ==
    \A g, h \in readers : g.session = h.session /\ g.attempt = h.attempt => g = h

RunningFits ==
    \A s \in Sessions : session[s].pc = "running" =>
        session[s].conn # 0 /\ conns[s][session[s].conn].accepted /\ Matches(s)

Inv ==
    /\ Types
    /\ \A s \in Sessions : Consistent(session[s])
    /\ \A g \in readers : ReaderFits(g)
    /\ ReadersDiffer
    /\ RunningFits
    /\ QuotaConserved

-----------------------------------------------------------------------------
(* Requests *)

LEMMA NewIsKnown ==
    ASSUME NEW mask
    PROVE  IsKnown(NewSession(mask)) /\ NewSession(mask).stat = "connected"
BY DEF IsKnown, NewSession

LEMMA AuthorizeKnown ==
    ASSUME NEW k, NEW r, IsKnown(k), k.stat # "connected", r # NoRequest
    PROVE  IsKnown(parseAuthorizeRequest(k, r))
BY DEF IsKnown, parseAuthorizeRequest

LEMMA LoginKnown ==
    ASSUME NEW k, IsKnown(k)
    PROVE  IsKnown(submitLogin(k))
BY NoRequestAssumption DEF IsKnown, submitLogin

LEMMA SubscribeKnown ==
    ASSUME NEW k, NEW r, IsKnown(k), k.stat = "connected", r # NoRequest
    PROVE  IsKnown(parseSubscribeRequest(k, r))
BY DEF IsKnown, parseSubscribeRequest

\* Whatever a client sends, a session that is authorized has saved both requests.
LEMMA HandledIsKnown ==
    ASSUME NEW k, NEW r, IsKnown(k), r # NoRequest
    PROVE  IsKnown(stratumHandleRequest(k, r))
<1>1. CASE r.method = "mining.subscribe" /\ k.stat = "connected"
  BY <1>1, SubscribeKnown DEF stratumHandleRequest
<1>2. CASE r.method = "mining.authorize" /\ k.stat = "subscribed"
  BY <1>2, AuthorizeKnown DEF stratumHandleRequest
<1>3. CASE r.method = "eth_submitLogin"
  <2> DEFINE login == submitLogin(k)
  <2>1. IsKnown(login)
    BY LoginKnown
  <2>2. stratumHandleRequest(k, r) =
          IF login.stat = "subscribed" THEN parseAuthorizeRequest(login, r) ELSE login
    BY <1>3 DEF stratumHandleRequest
  <2> HIDE DEF login
  <2> QED
    BY <2>1, <2>2, AuthorizeKnown
<1>4. CASE r.method = "mining.configure" /\ k.protocolType = "BitcoinStratum"
  <2>1. IsKnown(parseConfigureRequest(k, r))
    BY DEF IsKnown, parseConfigureRequest
  <2> QED
    BY <1>4, <2>1 DEF stratumHandleRequest
<1>5. CASE /\ ~(r.method = "mining.subscribe" /\ k.stat = "connected")
           /\ ~(r.method = "mining.authorize" /\ k.stat = "subscribed")
           /\ r.method # "eth_submitLogin"
           /\ ~(r.method = "mining.configure" /\ k.protocolType = "BitcoinStratum")
  BY <1>5 DEF stratumHandleRequest
<1> QED
  BY <1>1, <1>2, <1>3, <1>4, <1>5

-----------------------------------------------------------------------------
(* Numbers of attempts *)

\* The attempts of all reconnections have numbers of their own, in order.
LEMMA AttemptNumbers ==
    ASSUME NEW n \in 0 .. MaxReconnects, NEW a \in 1 .. MaxAttempts
    PROVE  /\ n * MaxAttempts \in Nat
           /\ n # 0 => (n - 1) * MaxAttempts \in Nat
           /\ n # 0 => 1 + (n - 1) * MaxAttempts + a <= 1 + n * MaxAttempts
           /\ n * MaxAttempts <= MaxReconnects * MaxAttempts
           /\ MaxReconnects * MaxAttempts \in Nat
<1>0. n \in Nat /\ a \in Nat /\ MaxAttempts \in Nat /\ MaxReconnects \in Nat
  BY SessionAssumption
<1>1. \A i, j \in Nat : i * j \in Nat
  OBVIOUS
<1>2. n # 0 => (n - 1) * MaxAttempts = n * MaxAttempts - MaxAttempts /\ n - 1 \in Nat
  BY <1>0
<1>3. (MaxReconnects - n) \in Nat /\ (MaxReconnects - n) * MaxAttempts = MaxReconnects * MaxAttempts - n * MaxAttempts
  BY <1>0
<1>4. /\ n * MaxAttempts \in Nat /\ MaxReconnects * MaxAttempts \in Nat
      /\ (MaxReconnects - n) * MaxAttempts \in Nat
      /\ n # 0 => (n - 1) * MaxAttempts \in Nat
  BY <1>0, <1>1, <1>2, <1>3
<1> QED
  BY <1>0, <1>2, <1>3, <1>4

\* The next attempt has a number above the one before, and there is room for it.
LEMMA NextAttempt ==
    ASSUME NEW r, IsSession(r), Consistent(r), r.pc \in {"connecting", "authorizing", "running"}
    PROVE  /\ AttemptOf(r) \in Attempts
           /\ AttemptOf(r) \in Nat \ {0}
           /\ \A q : /\ q.reconnects = r.reconnects /\ r.reconnects # 0
                    /\ q.attempts = r.attempts + 1
                    => AttemptOf(q) = AttemptOf(r) + 1
           /\ \A q : /\ q.reconnects = r.reconnects + 1 /\ q.attempts = 1
                    => AttemptOf(q) > AttemptOf(r)
<1> DEFINE n == r.reconnects
           a == r.attempts
<1>1. n \in 0 .. MaxReconnects /\ a \in 1 .. MaxAttempts /\ (n = 0 => a = 1)
  BY DEF Consistent
<1>2. MaxAttempts \in Nat \ {0} /\ MaxReconnects \in Nat
  BY SessionAssumption
<1>3. /\ n * MaxAttempts \in Nat
      /\ n # 0 => (n - 1) * MaxAttempts \in Nat
      /\ n # 0 => 1 + (n - 1) * MaxAttempts + a <= 1 + n * MaxAttempts
      /\ n * MaxAttempts <= MaxReconnects * MaxAttempts
      /\ MaxReconnects * MaxAttempts \in Nat
  BY <1>1, AttemptNumbers
<1>4. AttemptOf(r) = IF n = 0 THEN 1 ELSE 1 + (n - 1) * MaxAttempts + a
  BY DEF AttemptOf
<1>5. ASSUME NEW q, q.reconnects = n, n # 0, q.attempts = a + 1
      PROVE  AttemptOf(q) = AttemptOf(r) + 1
  <2>1. AttemptOf(q) = 1 + (n - 1) * MaxAttempts + (a + 1)
    BY <1>5 DEF AttemptOf
  <2> QED
    BY <2>1, <1>1, <1>3, <1>4, <1>5
<1>6. ASSUME NEW q, q.reconnects = n + 1, q.attempts = 1
      PROVE  AttemptOf(q) > AttemptOf(r)
  <2>1. n + 1 # 0 /\ (n + 1) - 1 = n
    BY <1>1
  <2>2. AttemptOf(q) = 1 + n * MaxAttempts + 1
    BY <1>6, <2>1 DEF AttemptOf
  <2> QED
    BY <2>2, <1>1, <1>3, <1>4
<1>7. AttemptOf(r) \in Attempts
  BY <1>1, <1>2, <1>3, <1>4 DEF Attempts
<1>8. AttemptOf(r) \in Nat \ {0}
  BY <1>1, <1>3, <1>4
<1> QED
  BY <1>5, <1>6, <1>7, <1>8

-----------------------------------------------------------------------------
(* The quota *)

\* A step of one session, and of the number it takes from and gives back to.
Becomes(s, r) == session' = [session EXCEPT ![s] = r]

Counts(s, r) ==
    autoRegAllowUsers' = autoRegAllowUsers + (IF session[s].held THEN 1 ELSE 0)
                                           - (IF r.held THEN 1 ELSE 0)

\* A step of one session that counts what it takes and gives back.
LEMMA QuotaStep ==
    ASSUME Types, QuotaConserved,
           NEW s \in Sessions, NEW r, r.held \in BOOLEAN,
           Becomes(s, r), Counts(s, r)
    PROVE  QuotaConserved' /\ autoRegAllowUsers' \in Int
<1>1. Held' = IF r.held THEN Held \cup {s} ELSE Held \ {s}
  BY DEF Held, Types, Becomes
<1>2. s \in Held <=> session[s].held
  BY DEF Held
<1>3. IsFiniteSet(Held) /\ Cardinality(Held) \in Nat
  BY SessionAssumption, FS_Subset, FS_CardinalityType DEF Held
<1>4. Cardinality(Held \cup {s}) = IF s \in Held THEN Cardinality(Held) ELSE Cardinality(Held) + 1
  BY <1>3, FS_AddElement
<1>5. Cardinality(Held \ {s}) = IF s \in Held THEN Cardinality(Held) - 1 ELSE Cardinality(Held)
  BY <1>3, FS_RemoveElement
<1>6. autoRegAllowUsers \in Int /\ session[s].held \in BOOLEAN
  BY DEF Types, IsSession
<1>7. Cardinality(Held') = Cardinality(Held) + (IF r.held THEN 1 ELSE 0)
                                             - (IF session[s].held THEN 1 ELSE 0)
  <2>1. CASE r.held /\ session[s].held
    BY <2>1, <1>1, <1>2, <1>3, <1>4
  <2>2. CASE r.held /\ ~session[s].held
    BY <2>2, <1>1, <1>2, <1>3, <1>4
  <2>3. CASE ~r.held /\ session[s].held
    BY <2>3, <1>1, <1>2, <1>3, <1>5
  <2>4. CASE ~r.held /\ ~session[s].held
    BY <2>4, <1>1, <1>2, <1>3, <1>5
  <2> QED
    BY <2>1, <2>2, <2>3, <2>4, <1>6
<1>8. autoRegAllowUsers + Cardinality(Held) = AutoRegMaxWaitUsers
  BY DEF QuotaConserved
<1>9. autoRegAllowUsers' + Cardinality(Held') = AutoRegMaxWaitUsers
  <2>1. CASE r.held /\ session[s].held
    BY <2>1, <1>3, <1>6, <1>7, <1>8 DEF Counts
  <2>2. CASE r.held /\ ~session[s].held
    BY <2>2, <1>3, <1>6, <1>7, <1>8 DEF Counts
  <2>3. CASE ~r.held /\ session[s].held
    BY <2>3, <1>3, <1>6, <1>7, <1>8 DEF Counts
  <2>4. CASE ~r.held /\ ~session[s].held
    BY <2>4, <1>3, <1>6, <1>7, <1>8 DEF Counts
  <2> QED
    BY <2>1, <2>2, <2>3, <2>4, <1>6
<1>10. autoRegAllowUsers' \in Int
  BY <1>6 DEF Counts
<1> QED
  BY <1>9, <1>10 DEF QuotaConserved

LEMMA QuotaKept ==
    ASSUME Types, QuotaConserved, UNCHANGED autoRegAllowUsers,
           \A s \in Sessions : session'[s].held = session[s].held
    PROVE  QuotaConserved' /\ autoRegAllowUsers' \in Int
<1>1. Held' = Held
  BY DEF Held
<1> QED
  BY <1>1 DEF QuotaConserved, Types

-----------------------------------------------------------------------------
(* Steps *)

ConnTypes ==
    /\ DOMAIN conns = Sessions
    /\ \A s \in Sessions : DOMAIN conns[s] = Attempts
    /\ \A s \in Sessions : \A a \in Attempts : IsConn(conns[s][a])

\* The goroutines that are left by a step of a session: those of other sessions,
\* and those that outlived a time limit of it.
Left(s, r) ==
    /\ readers' \subseteq readers
    /\ \A g \in readers' : g.session = s => r.late /\ g.result = "none"

\* A step of one session that does not begin an attempt.  What the goroutines of
\* earlier attempts do does not concern it.
LEMMA SessionStep ==
    ASSUME Inv, NEW s \in Sessions, NEW r,
           Becomes(s, r), Counts(s, r), Left(s, r),
           UNCHANGED panics,
           IsSession(r), Consistent(r),
           r.conn = session[s].conn,
           session[s].late => r.late,
           r.pc = "running" =>
              /\ r.conn # 0 /\ UNCHANGED conns
              /\ conns[s][r.conn].accepted
              /\ Agrees(r.k, conns[s][r.conn]) \/ r.late,
           ConnTypes',
           \A t \in Sessions \ {s} : conns'[t] = conns[t]
    PROVE  Inv'
<1>1. /\ DOMAIN session' = Sessions
      /\ session'[s] = r
      /\ \A t \in Sessions \ {s} : session'[t] = session[t]
  BY DEF Inv, Types, Becomes
<1>2. QuotaConserved' /\ autoRegAllowUsers' \in Int
  <2>1. Types /\ QuotaConserved /\ r.held \in BOOLEAN
    BY DEF Inv, IsSession
  <2> QED
    BY <2>1, QuotaStep
<1>3. Types'
  BY <1>1, <1>2 DEF Inv, Types, ConnTypes, Left
<1>4. \A t \in Sessions : Consistent(session'[t])
  BY <1>1 DEF Inv
<1>5. ASSUME NEW g \in readers' PROVE ReaderFits(g)'
  <2>1. g.session \in Sessions /\ ReaderFits(g)
    BY DEF Inv, Types, IsReader, Left
  <2>2. CASE g.session # s
    BY <2>1, <2>2, <1>1 DEF ReaderFits, Matches
  <2>3. CASE g.session = s
    <3>1. r.late /\ g.result = "none"
      BY <2>3 DEF Left
    <3> QED
      BY <3>1, <2>1, <2>3, <1>1 DEF ReaderFits
  <2> QED
    BY <2>2, <2>3
<1>6. RunningFits'
  <2> SUFFICES ASSUME NEW t \in Sessions, session'[t].pc = "running"
               PROVE  /\ session'[t].conn # 0
                      /\ conns'[t][session'[t].conn].accepted
                      /\ Matches(t)'
    BY DEF RunningFits
  <2>1. CASE t # s
    BY <2>1, <1>1 DEF Inv, RunningFits, Matches
  <2>2. CASE t = s
    BY <2>2, <1>1 DEF Matches
  <2> QED
    BY <2>1, <2>2
<1>7. ReadersDiffer'
  BY DEF Inv, ReadersDiffer, Left
<1> QED
  BY <1>2, <1>3, <1>4, <1>5, <1>6, <1>7 DEF Inv

\* No goroutine that has the result of an attempt, or that is in time, is left
\* over from an attempt that has ended.
LEMMA AllLeft ==
    ASSUME Inv, NEW s \in Sessions, NEW r,
           UNCHANGED readers,
           session[s].pc # "authorizing",
           session[s].late => r.late
    PROVE  Left(s, r)
BY DEF Inv, Left, ReaderFits, Types, IsReader

LEMMA FreshFits ==
    ASSUME NEW pc \in {"naming", "stopped"}
    PROVE  /\ IsSession(Fresh(pc)) /\ Consistent(Fresh(pc))
           /\ Fresh(pc).pc = pc /\ ~Fresh(pc).held /\ Fresh(pc).conn = 0
<1> DEFINE k == NewSession(0)
<1>1. IsKnown(k)
  BY NewIsKnown
<1>2. Fresh(pc) =
        [pc |-> pc, k |-> k, request |-> NoRequest, coin |-> NoCoin, autoReg |-> TRUE,
         held |-> FALSE, conn |-> 0, reader |-> FALSE, attempts |-> 0, reconnects |-> 0,
         late |-> FALSE]
  BY DEF Fresh
<1> HIDE DEF k
<1> QED
  BY <1>1, <1>2 DEF IsSession, Consistent, Pcs

LEMMA NoConnTypes ==
    ASSUME NEW f, f = [s \in Sessions |-> [a \in Attempts |-> NoConn]]
    PROVE  /\ DOMAIN f = Sessions
           /\ \A s \in Sessions : DOMAIN f[s] = Attempts
           /\ \A s \in Sessions : \A a \in Attempts : IsConn(f[s][a])
BY DEF IsConn, NoConn

LEMMA NoneHeld ==
    ASSUME \A s \in Sessions : ~session[s].held, autoRegAllowUsers = AutoRegMaxWaitUsers
    PROVE  QuotaConserved
<1>1. Held = {}
  BY DEF Held
<1>2. Cardinality(Held) = 0
  BY <1>1, FS_EmptySet
<1> QED
  BY <1>2, SessionAssumption DEF QuotaConserved

LEMMA InitInv == Init => Inv
<1> SUFFICES ASSUME Init PROVE Inv
  OBVIOUS
<1>1. PICK start \in Starts :
        session = [s \in Sessions |-> Fresh(IF s \in start.sessions THEN "naming" ELSE "stopped")]
  BY DEF Init
<1>2. /\ DOMAIN session = Sessions
      /\ \A s \in Sessions : /\ IsSession(session[s]) /\ Consistent(session[s])
                             /\ ~session[s].held
                             /\ session[s].pc \in {"naming", "stopped"}
  BY <1>1, FreshFits
<1>3. ConnTypes /\ readers = {} /\ panics = 0 /\ autoRegAllowUsers = AutoRegMaxWaitUsers
  BY NoConnTypes DEF Init, ConnTypes
<1>4. QuotaConserved
  BY <1>2, <1>3, NoneHeld
<1>5. Types
  BY <1>2, <1>3, SessionAssumption DEF Types, ConnTypes
<1> QED
  BY <1>2, <1>3, <1>4, <1>5 DEF Inv, ReadersDiffer, RunningFits

\* The process begins anew.
LEMMA PanicInv ==
    ASSUME Inv, Panic
    PROVE  Inv'
<1>1. /\ session' = [s \in Sessions |-> Fresh("stopped")]
      /\ readers' = {}
      /\ conns' = [s \in Sessions |-> [a \in Attempts |-> NoConn]]
      /\ autoRegAllowUsers' = AutoRegMaxWaitUsers
      /\ panics' = panics + 1
  BY DEF Panic
<1>2. /\ DOMAIN session' = Sessions
      /\ \A s \in Sessions : /\ IsSession(session'[s]) /\ Consistent(session'[s])
                             /\ ~session'[s].held
                             /\ session'[s].pc = "stopped"
  BY <1>1, FreshFits
<1>3. ConnTypes'
  BY <1>1, NoConnTypes DEF ConnTypes
<1>4. QuotaConserved'
  <2>1. Held' = {}
    BY <1>2 DEF Held
  <2>2. Cardinality(Held') = 0
    BY <2>1, FS_EmptySet
  <2> QED
    BY <2>2, <1>1, SessionAssumption DEF QuotaConserved
<1>5. Types'
  BY <1>1, <1>2, <1>3, SessionAssumption DEF Inv, Types, ConnTypes
<1> QED
  BY <1>1, <1>2, <1>4, <1>5 DEF Inv, ReadersDiffer, RunningFits

\* A step of one session, and of nothing else but the nodes and the service.
LEMMA OwnStep ==
    ASSUME Inv, NEW s \in Sessions, NEW r,
           Becomes(s, r), Counts(s, r),
           UNCHANGED <<readers, conns, panics>>,
           IsSession(r), Consistent(r),
           r.conn = session[s].conn,
           session[s].late => r.late,
           session[s].pc # "authorizing", r.pc \notin {"authorizing", "running"}
    PROVE  Inv'
<1>1. ConnTypes'
  BY DEF Inv, Types, ConnTypes
<1>2. \A t \in Sessions \ {s} : conns'[t] = conns[t]
  OBVIOUS
<1>3. Left(s, r)
  BY AllLeft
<1> QED
  BY <1>1, <1>2, <1>3, SessionStep

\* What Counts asks of a step that neither takes nor gives back.
LEMMA CountsNothing ==
    ASSUME Inv, NEW s \in Sessions, NEW r, r.held = session[s].held,
           UNCHANGED autoRegAllowUsers
    PROVE  Counts(s, r)
<1>1. autoRegAllowUsers \in Int /\ r.held \in BOOLEAN
  BY DEF Inv, Types, IsSession
<1>2. CASE r.held
  BY <1>1, <1>2 DEF Counts
<1>3. CASE ~r.held
  BY <1>1, <1>3 DEF Counts
<1> QED
  BY <1>1, <1>2, <1>3

LEMMA SessionFits ==
    ASSUME Inv, NEW s \in Sessions
    PROVE  IsSession(session[s]) /\ Consistent(session[s])
BY DEF Inv, Types

\* Closing a connection.
LEMMA CloseTypes ==
    ASSUME Inv, NEW s \in Sessions, NEW a \in Attempts,
           conns' = [conns EXCEPT ![s][a] = [@ EXCEPT !.open = FALSE]]
    PROVE  /\ ConnTypes'
           /\ \A t \in Sessions \ {s} : conns'[t] = conns[t]
<1> DEFINE new == [conns[s][a] EXCEPT !.open = FALSE]
<1>1. IsConn(new)
  BY DEF Inv, Types, IsConn
<1>2. conns' = [conns EXCEPT ![s] = [conns[s] EXCEPT ![a] = new]]
  BY DEF Inv, Types
<1> HIDE DEF new
<1> QED
  BY <1>1, <1>2 DEF Inv, Types, ConnTypes

\* Stopping a session that has not changed but in what it knows of itself.
LEMMA StopInv ==
    ASSUME Inv, NEW s \in Sessions, NEW record,
           StopWith(s, record), Left(s, record), UNCHANGED panics,
           IsSession(record),
           record.request # NoRequest => record.late,
           record.conn = session[s].conn,
           session[s].late => record.late,
           autoRegAllowUsers' = autoRegAllowUsers + (IF session[s].held THEN 1 ELSE 0)
    PROVE  Inv'
<1> DEFINE r == [record EXCEPT !.pc = "stopped", !.held = FALSE]
<1>1. Becomes(s, r)
  BY DEF StopWith, Becomes
<1>2. IsSession(r) /\ Consistent(r) /\ ~r.held /\ r.pc = "stopped"
      /\ r.conn = record.conn /\ r.late = record.late
  BY DEF IsSession, Consistent, Pcs
<1>3. Counts(s, r)
  <2>1. autoRegAllowUsers' \in Int
    BY DEF Inv, Types
  <2> QED
    BY <2>1, <1>2 DEF Counts
<1>4. ConnTypes' /\ \A t \in Sessions \ {s} : conns'[t] = conns[t]
  <2>1. CASE record.conn = 0
    BY <2>1 DEF StopWith, Inv, Types, ConnTypes
  <2>2. CASE record.conn # 0
    <3>1. record.conn \in Attempts
      BY <2>2 DEF IsSession
    <3>2. conns' = [conns EXCEPT ![s][record.conn] = [@ EXCEPT !.open = FALSE]]
      BY <2>2 DEF StopWith
    <3> QED
      BY <3>1, <3>2, CloseTypes
  <2> QED
    BY <2>1, <2>2
<1>5. Left(s, r)
  BY <1>2 DEF Left
<1> HIDE DEF r
<1> QED
  BY <1>1, <1>2, <1>3, <1>4, <1>5, SessionStep

-----------------------------------------------------------------------------
(* The client *)

LEMMA ReadRequestInv ==
    ASSUME Inv, NEW s \in Sessions, ReadRequest(s)
    PROVE  Inv'
<1>1. PICK req \in ClientRequests[s] : session' = [session EXCEPT ![s].request = req]
  BY DEF ReadRequest
<1> DEFINE r == [session[s] EXCEPT !.request = req]
<1>2. Becomes(s, r) /\ session[s].pc = "naming"
  BY <1>1 DEF ReadRequest, Becomes
<1>3. /\ IsSession(r) /\ Consistent(r)
      /\ r.held = session[s].held /\ r.conn = session[s].conn
      /\ r.late = session[s].late /\ r.pc = "naming"
  BY <1>2, SessionFits DEF IsSession, Consistent
<1>4. UNCHANGED <<readers, conns, panics, autoRegAllowUsers>>
  BY DEF ReadRequest, regVars
<1> HIDE DEF r
<1> QED
  BY <1>2, <1>3, <1>4, CountsNothing, OwnStep

LEMMA HandleRequestInv ==
    ASSUME Inv, NEW s \in Sessions, HandleRequest(s)
    PROVE  Inv'
<1> DEFINE k == stratumHandleRequest(session[s].k, session[s].request)
           r == [session[s] EXCEPT !.k = k, !.request = NoRequest,
                                   !.pc = IF k.stat = "authorized" THEN "finding" ELSE @]
<1>1. Becomes(s, r) /\ session[s].pc = "naming" /\ session[s].request # NoRequest
  BY DEF HandleRequest, Becomes
<1>2. IsKnown(k)
  BY <1>1, SessionFits, HandledIsKnown DEF IsSession
<1> HIDE DEF k
<1>3. /\ IsSession(r) /\ Consistent(r)
      /\ r.held = session[s].held /\ r.conn = session[s].conn
      /\ r.late = session[s].late /\ r.pc \in {"naming", "finding"}
  BY <1>1, <1>2, SessionFits DEF IsSession, Consistent, Pcs
<1>4. UNCHANGED <<readers, conns, panics, autoRegAllowUsers>>
  BY DEF HandleRequest, regVars
<1> HIDE DEF r
<1> QED
  BY <1>1, <1>3, <1>4, CountsNothing, OwnStep

LEMMA FindWorkerNameFailsInv ==
    ASSUME Inv, NEW s \in Sessions, FindWorkerNameFails(s)
    PROVE  Inv'
<1> DEFINE record == [session[s] EXCEPT !.late = session[s].request # NoRequest]
<1>1. /\ session[s].pc = "naming"
      /\ StopWith(s, record)
      /\ UNCHANGED <<readers, panics, autoRegAllowUsers>>
  BY DEF FindWorkerNameFails, regVars
<1>2. /\ IsSession(session[s]) /\ Consistent(session[s])
      /\ ~session[s].held
  BY <1>1, SessionFits DEF Consistent, IsSession
<1>3. /\ IsSession(record) /\ record.conn = session[s].conn /\ ~session[s].late
      /\ record.request # NoRequest => record.late
  BY <1>1, <1>2 DEF Consistent, IsSession
<1>4. autoRegAllowUsers' = autoRegAllowUsers + (IF session[s].held THEN 1 ELSE 0)
  BY <1>1, <1>2 DEF Inv, Types
<1> HIDE DEF record
<1>5. Left(s, record)
  BY <1>1, <1>3, AllLeft
<1> QED
  BY <1>1, <1>3, <1>4, <1>5, StopInv

-----------------------------------------------------------------------------
(* The registration *)

LEMMA FindMiningCoinInv ==
    ASSUME Inv, NEW s \in Sessions, FindMiningCoin(s)
    PROVE  Inv'
<1>1. /\ session[s].pc \in {"finding", "woken"}
      /\ UNCHANGED <<readers, conns, panics>>
      /\ IsSession(session[s]) /\ Consistent(session[s])
  BY SessionFits DEF FindMiningCoin
<1>2. PICK failed \in {FALSE, failures < MaxFailures} :
        LET coin == IF failed THEN NoCoin ELSE coinOf[User(s)]
            next == IF coin = NoCoin /\ session[s].pc = "finding"
                    THEN [session[s] EXCEPT !.pc = "registering"]
                    ELSE Found(s, coin)
        IN /\ session' = [session EXCEPT ![s] = [next EXCEPT !.held = FALSE]]
           /\ autoRegAllowUsers' = autoRegAllowUsers + Released(s)
  BY DEF FindMiningCoin
<1> DEFINE coin == IF failed THEN NoCoin ELSE coinOf[User(s)]
           found == Found(s, coin)
           waits == [session[s] EXCEPT !.pc = "registering"]
           next == IF coin = NoCoin /\ session[s].pc = "finding" THEN waits ELSE found
           r == [next EXCEPT !.held = FALSE]
<1>3. Becomes(s, r)
  BY <1>2 DEF Becomes
<1>4. autoRegAllowUsers' = autoRegAllowUsers + Released(s)
  BY <1>2
<1>5. CASE next = waits
  <2>1. IsSession(r) /\ Consistent(r) /\ ~r.held
        /\ r.conn = session[s].conn /\ r.late = session[s].late /\ r.pc = "registering"
    BY <1>1, <1>5 DEF IsSession, Consistent, Pcs
  <2>2. Counts(s, r)
    BY <1>1, <1>4, <2>1 DEF Counts, Released, Inv, Types
  <2> HIDE DEF r
  <2> QED
    BY <1>1, <1>3, <2>1, <2>2, OwnStep
<1>6. CASE next = found
  <2> HIDE DEF coin, next
  <2>1. /\ IsSession(found) /\ found.reconnects = 0 /\ found.attempts = 1
        /\ found.conn = 0 /\ found.conn = session[s].conn /\ found.late = session[s].late
        /\ found.pc \in {"connecting", "stopped"}
        /\ found.request = session[s].request /\ found.k = session[s].k
    BY <1>1 DEF Found, IsSession, Consistent, Pcs
  <2> HIDE DEF found
  <2>2. IsSession(r) /\ ~r.held /\ r.reconnects = 0 /\ r.attempts = 1 /\ r.conn = 0
        /\ r.conn = session[s].conn /\ r.late = session[s].late
        /\ r.pc \in {"connecting", "stopped"} /\ r.request = session[s].request
        /\ r.k = session[s].k
    BY <1>6, <2>1 DEF IsSession
  <2>3. AttemptOf(r) = 1
    BY <2>2 DEF AttemptOf
  <2>4. Consistent(r)
    BY <1>1, <2>2, <2>3, SessionAssumption DEF Consistent
  <2>5. Counts(s, r)
    BY <1>1, <1>4, <2>2 DEF Counts, Released, Inv, Types
  <2> HIDE DEF r
  <2> QED
    BY <1>1, <1>3, <2>2, <2>4, <2>5, OwnStep
<1> QED
  BY <1>5, <1>6

\* A step from one point of the registration to another.
LEMMA GotoInv ==
    ASSUME Inv, NEW s \in Sessions, NEW pc,
           session' = [session EXCEPT ![s] = [session[s] EXCEPT !.pc = pc]],
           UNCHANGED <<readers, conns, panics, autoRegAllowUsers>>,
           session[s].pc \in {"registering", "creating", "watching"},
           pc \in {"waiting", "watching", "counting", "stopped"},
           session[s].held => pc \in {"waiting", "watching"}
    PROVE  Inv'
<1> DEFINE r == [session[s] EXCEPT !.pc = pc]
<1>1. Becomes(s, r)
  BY DEF Becomes
<1>2. /\ IsSession(r) /\ Consistent(r)
      /\ r.held = session[s].held /\ r.conn = session[s].conn
      /\ r.late = session[s].late /\ r.pc = pc
  BY SessionFits DEF IsSession, Consistent, Pcs
<1> HIDE DEF r
<1> QED
  BY <1>1, <1>2, CountsNothing, OwnStep

LEMMA CheckRegistrationInv ==
    ASSUME Inv, NEW s \in Sessions, CheckRegistration(s)
    PROVE  Inv'
<1>1. /\ session[s].pc = "registering"
      /\ UNCHANGED <<readers, conns, panics, autoRegAllowUsers>>
      /\ \E pc \in {"waiting", "stopped", "counting"} : Goto(s, pc)
  BY DEF CheckRegistration
<1>2. ~session[s].held
  BY <1>1, SessionFits DEF Consistent, IsSession
<1> QED
  BY <1>1, <1>2, GotoInv DEF Goto

LEMMA CountRegistrationInv ==
    ASSUME Inv, NEW s \in Sessions, CountRegistration(s)
    PROVE  Inv'
<1> DEFINE r == [session[s] EXCEPT !.pc = "creating", !.held = TRUE]
<1>1. /\ session[s].pc = "counting" /\ Becomes(s, r)
      /\ autoRegAllowUsers' = autoRegAllowUsers - 1
      /\ UNCHANGED <<readers, conns, panics>>
  BY DEF CountRegistration, Becomes
<1>2. /\ IsSession(r) /\ Consistent(r) /\ ~session[s].held /\ r.held
      /\ r.conn = session[s].conn /\ r.late = session[s].late /\ r.pc = "creating"
  BY <1>1, SessionFits DEF IsSession, Consistent, Pcs
<1>3. Counts(s, r)
  BY <1>1, <1>2 DEF Counts, Inv, Types
<1> HIDE DEF r
<1> QED
  BY <1>1, <1>2, <1>3, OwnStep

LEMMA CreateRegistrationInv ==
    ASSUME Inv, NEW s \in Sessions, CreateRegistration(s)
    PROVE  Inv'
<1>1. /\ session[s].pc = "creating"
      /\ UNCHANGED <<readers, conns, panics, autoRegAllowUsers>>
      /\ Goto(s, "watching")
  BY DEF CreateRegistration
<1> QED
  BY <1>1, GotoInv DEF Goto

LEMMA WatchRegistrationInv ==
    ASSUME Inv, NEW s \in Sessions, WatchRegistration(s)
    PROVE  Inv'
<1>1. session[s].pc = "watching" /\ UNCHANGED <<readers, panics>>
      /\ IsSession(session[s]) /\ Consistent(session[s])
  BY SessionFits DEF WatchRegistration
<1>2. CASE Goto(s, "waiting") /\ UNCHANGED <<conns, autoRegAllowUsers>>
  BY <1>1, <1>2, GotoInv DEF Goto
<1>3. CASE Stop(s) /\ autoRegAllowUsers' = autoRegAllowUsers + Released(s)
  <2>1. session[s].request # NoRequest => session[s].late
    BY <1>1 DEF Consistent
  <2>2. Left(s, session[s])
    BY <1>1, AllLeft
  <2> QED
    BY <1>1, <1>3, <2>1, <2>2, StopInv DEF Stop, Released
<1> QED
  BY <1>2, <1>3 DEF WatchRegistration

\* The sessions that waited are woken; nothing else about them changes.
LEMMA ServiceDeletesInv ==
    ASSUME Inv, ServiceDeletes
    PROVE  Inv'
<1>1. UNCHANGED <<readers, conns, panics, autoRegAllowUsers>>
  BY DEF ServiceDeletes
<1>2. CASE UNCHANGED session
  BY <1>1, <1>2 DEF Inv, Types, ReaderFits, Matches, ReadersDiffer, RunningFits, QuotaConserved, Held
<1>3. CASE session' = [s \in Sessions |->
                        IF session[s].pc = "waiting" /\ User(s) = regUser.user
                        THEN [session[s] EXCEPT !.pc = "woken"] ELSE session[s]]
  <2>1. DOMAIN session' = Sessions
    BY <1>3
  <2>2. ASSUME NEW s \in Sessions
        PROVE  \/ session'[s] = session[s]
               \/ /\ session[s].pc = "waiting"
                  /\ session'[s] = [session[s] EXCEPT !.pc = "woken"]
    BY <1>3
  <2>3. ASSUME NEW s \in Sessions, session[s].pc = "waiting",
               session'[s] = [session[s] EXCEPT !.pc = "woken"]
        PROVE  /\ IsSession(session'[s]) /\ Consistent(session'[s])
               /\ session'[s].held = session[s].held /\ session'[s].conn = session[s].conn
               /\ session'[s].late = session[s].late /\ session'[s].reader = session[s].reader
               /\ session'[s].k = session[s].k
               /\ session'[s].pc = "woken"
    BY <2>3, SessionFits DEF IsSession, Consistent, Pcs
  <2>4. ASSUME NEW s \in Sessions
        PROVE  /\ IsSession(session'[s]) /\ Consistent(session'[s])
               /\ session'[s].held = session[s].held /\ session'[s].conn = session[s].conn
               /\ session'[s].late = session[s].late /\ session'[s].reader = session[s].reader
               /\ session'[s].k = session[s].k
               /\ session'[s].pc = session[s].pc
                  \/ (session[s].pc = "waiting" /\ session'[s].pc = "woken")
    BY <2>2, <2>3, SessionFits
  <2>5. QuotaConserved' /\ autoRegAllowUsers' \in Int
    BY <1>1, <2>4, QuotaKept DEF Inv
  <2>6. Types'
    BY <1>1, <2>1, <2>4, <2>5 DEF Inv, Types
  <2>7. \A g \in readers : ReaderFits(g)'
    BY <1>1, <2>4 DEF Inv, Types, IsReader, ReaderFits, Matches
  <2>8. RunningFits'
    BY <1>1, <2>4 DEF Inv, RunningFits, Matches
  <2> QED
    BY <1>1, <2>4, <2>5, <2>6, <2>7, <2>8 DEF Inv, ReadersDiffer
<1> QED
  BY <1>2, <1>3 DEF ServiceDeletes

-----------------------------------------------------------------------------
(* Attempts *)

\* The end of an attempt: the next one, or the end of the session.
LEMMA AttemptFailsInv ==
    ASSUME Inv, NEW s \in Sessions, NEW record,
           AttemptFails(s, record), Left(s, record),
           UNCHANGED <<panics, autoRegAllowUsers>>,
           session[s].pc \in {"connecting", "authorizing"},
           record.pc = session[s].pc, ~record.held,
           IsSession(record), Consistent(record),
           record.conn = session[s].conn,
           session[s].late => record.late
    PROVE  Inv'
<1>1. ~session[s].held /\ autoRegAllowUsers \in Int
  BY SessionFits DEF Consistent, IsSession, Inv, Types
<1>2. record.request # NoRequest => record.late
  BY DEF Consistent
<1>3. CASE record.reconnects > 0 /\ record.attempts < MaxAttempts
  <2> DEFINE r == [record EXCEPT !.pc = "connecting", !.attempts = record.attempts + 1]
  <2>1. Becomes(s, r) /\ UNCHANGED conns
    BY <1>3 DEF AttemptFails, Becomes
  <2>2. /\ IsSession(r) /\ ~r.held /\ r.conn = record.conn /\ r.late = record.late
        /\ r.pc = "connecting" /\ r.k = record.k /\ r.request = record.request
        /\ r.attempts = record.attempts + 1 /\ r.reconnects = record.reconnects
    BY DEF IsSession, Pcs
  <2> HIDE DEF r
  <2>3. AttemptOf(r) = AttemptOf(record) + 1 /\ AttemptOf(record) \in Nat
    <3>1. record.reconnects # 0
      BY <1>3 DEF IsSession
    <3> QED
      BY <2>2, <3>1, NextAttempt
  <2>4. record.conn <= AttemptOf(record) /\ record.conn \in Nat
    BY <2>3 DEF Consistent, IsSession, Attempts
  <2>5. r.attempts \in 1 .. MaxAttempts
    BY <1>3, <2>2, SessionAssumption DEF Consistent
  <2>6. Consistent(r)
    BY <1>2, <1>3, <2>2, <2>3, <2>4, <2>5 DEF Consistent
  <2>7. Counts(s, r)
    BY <1>1, <2>2, CountsNothing DEF Inv, Types, IsSession
  <2>8. ConnTypes' /\ Left(s, r)
    BY <2>1, <2>2 DEF Inv, Types, ConnTypes, Left
  <2> QED
    BY <2>1, <2>2, <2>6, <2>7, <2>8, SessionStep
<1>4. CASE ~(record.reconnects > 0 /\ record.attempts < MaxAttempts)
  <2>1. StopWith(s, record)
    BY <1>4 DEF AttemptFails
  <2>2. autoRegAllowUsers' = autoRegAllowUsers + (IF session[s].held THEN 1 ELSE 0)
    BY <1>1
  <2> QED
    BY <2>1, <2>2, <1>2, StopInv
<1> QED
  BY <1>3, <1>4

LEMMA DialFailsInv ==
    ASSUME Inv, NEW s \in Sessions, DialFails(s)
    PROVE  Inv'
<1>1. /\ session[s].pc = "connecting" /\ AttemptFails(s, session[s])
      /\ UNCHANGED <<readers, panics, autoRegAllowUsers>>
      /\ IsSession(session[s]) /\ Consistent(session[s])
  BY SessionFits DEF DialFails, regVars
<1>2. Left(s, session[s])
  BY <1>1, AllLeft
<1>3. ~session[s].held
  BY <1>1 DEF Consistent, IsSession
<1> QED
  BY <1>1, <1>2, <1>3, AttemptFailsInv

LEMMA AuthorizeTimeoutInv ==
    ASSUME Inv, NEW s \in Sessions, AuthorizeTimeout(s)
    PROVE  Inv'
<1> DEFINE record == [session[s] EXCEPT !.late = TRUE]
<1>1. /\ session[s].pc = "authorizing" /\ AttemptFails(s, record)
      /\ UNCHANGED <<panics, autoRegAllowUsers>>
      /\ readers' = {g \in readers : g.session # s \/ g.result = "none"}
      /\ IsSession(session[s]) /\ Consistent(session[s])
  BY SessionFits DEF AuthorizeTimeout, regVars
<1>2. ~session[s].held
  BY <1>1 DEF Consistent, IsSession
<1>3. /\ IsSession(record) /\ record.conn = session[s].conn /\ record.late /\ ~record.held
      /\ record.pc = session[s].pc
      /\ record.attempts = session[s].attempts /\ record.reconnects = session[s].reconnects
      /\ record.k = session[s].k
  BY <1>1, <1>2 DEF IsSession
<1> HIDE DEF record
<1>4. AttemptOf(record) = AttemptOf(session[s])
  BY <1>3 DEF AttemptOf
<1>5. Consistent(record)
  BY <1>1, <1>3, <1>4 DEF Consistent
<1>6. Left(s, record)
  BY <1>1, <1>3 DEF Left
<1> QED
  BY <1>1, <1>3, <1>5, <1>6, AttemptFailsInv

\* The result that a session takes is that of its current attempt, and no other
\* goroutine has one.
LEMMA AuthorizeEndsInv ==
    ASSUME Inv, NEW s \in Sessions, AuthorizeEnds(s)
    PROVE  Inv'
<1>1. PICK g \in readers :
        /\ g.session = s /\ g.result # "none"
        /\ readers' = readers \ {g}
        /\ IF g.result = "accepted" THEN Goto(s, "running") /\ UNCHANGED conns
           ELSE AttemptFails(s, session[s])
  BY DEF AuthorizeEnds
<1>2. /\ UNCHANGED <<panics, autoRegAllowUsers>>
      /\ IsSession(session[s]) /\ Consistent(session[s])
  BY SessionFits DEF AuthorizeEnds, regVars
<1>3. /\ session[s].pc = "authorizing" /\ g.attempt = session[s].conn
      /\ ReaderFits(g)
  BY <1>1 DEF Inv, ReaderFits
<1>4. ~session[s].held
  BY <1>2, <1>3 DEF Consistent, IsSession
<1>5. ASSUME NEW h \in readers', h.session = s
      PROVE  session[s].late /\ h.result = "none"
  <2>1. h \in readers /\ h # g /\ ReaderFits(h)
    BY <1>1 DEF Inv
  <2>2. h.attempt # session[s].conn
    BY <2>1, <1>1, <1>3, <1>5 DEF Inv, ReadersDiffer
  <2> QED
    BY <2>1, <2>2, <1>5 DEF ReaderFits
<1>6. CASE g.result # "accepted"
  <2>1. Left(s, session[s])
    BY <1>1, <1>5 DEF Left
  <2> QED
    BY <1>1, <1>2, <1>3, <1>4, <1>6, <2>1, AttemptFailsInv
<1>7. CASE g.result = "accepted"
  <2> DEFINE r == [session[s] EXCEPT !.pc = "running"]
  <2>1. Becomes(s, r) /\ UNCHANGED conns
    BY <1>1, <1>7 DEF Goto, Becomes
  <2>2. /\ IsSession(r) /\ ~r.held /\ r.held = session[s].held
        /\ r.conn = session[s].conn /\ r.late = session[s].late
        /\ r.pc = "running" /\ r.k = session[s].k /\ r.request = session[s].request
        /\ r.attempts = session[s].attempts /\ r.reconnects = session[s].reconnects
    BY <1>2, <1>4 DEF IsSession, Pcs
  <2> HIDE DEF r
  <2>3. AttemptOf(r) = AttemptOf(session[s])
    BY <2>2 DEF AttemptOf
  <2>4. Consistent(r)
    BY <1>2, <1>3, <2>2, <2>3 DEF Consistent
  <2>5. Counts(s, r)
    BY <1>2, <2>2, CountsNothing
  <2>6. Left(s, r) /\ ConnTypes'
    BY <1>1, <1>5, <2>1, <2>2 DEF Left, Inv, Types, ConnTypes
  <2>7. r.conn # 0
    BY <1>2, <1>3, <2>2, NextAttempt DEF Consistent
  <2>8. conns[s][r.conn].accepted /\ (Agrees(r.k, conns[s][r.conn]) \/ r.late)
    BY <1>1, <1>3, <1>7, <2>2 DEF ReaderFits, Matches
  <2> QED
    BY <1>2, <2>1, <2>2, <2>4, <2>5, <2>6, <2>7, <2>8, SessionStep
<1> QED
  BY <1>6, <1>7

LEMMA TakeReaderInv ==
    ASSUME Inv, NEW s \in Sessions, TakeReader(s)
    PROVE  Inv'
<1> DEFINE r == [session[s] EXCEPT !.reader = FALSE]
<1>1. /\ session[s].pc = "running" /\ Becomes(s, r)
      /\ UNCHANGED <<readers, conns, panics, autoRegAllowUsers>>
      /\ IsSession(session[s]) /\ Consistent(session[s])
  BY SessionFits DEF TakeReader, Becomes, regVars
<1>2. /\ IsSession(r) /\ r.held = session[s].held
      /\ r.conn = session[s].conn /\ r.late = session[s].late
      /\ r.pc = session[s].pc /\ r.k = session[s].k /\ r.request = session[s].request
      /\ r.attempts = session[s].attempts /\ r.reconnects = session[s].reconnects
  BY <1>1 DEF IsSession
<1> HIDE DEF r
<1>3. AttemptOf(r) = AttemptOf(session[s])
  BY <1>2 DEF AttemptOf
<1>4. Consistent(r)
  BY <1>1, <1>2, <1>3 DEF Consistent
<1>5. Counts(s, r) /\ Left(s, r)
  BY <1>1, <1>2, CountsNothing, AllLeft
<1>6. ConnTypes'
  BY <1>1 DEF Inv, Types, ConnTypes
<1>7. r.conn # 0 /\ conns[s][r.conn].accepted /\ (Agrees(r.k, conns[s][r.conn]) \/ r.late)
  BY <1>1, <1>2 DEF Inv, RunningFits, Matches
<1> QED
  BY <1>1, <1>2, <1>4, <1>5, <1>6, <1>7, SessionStep

LEMMA ReconnectInv ==
    ASSUME Inv, NEW s \in Sessions, Reconnect(s)
    PROVE  Inv'
<1> DEFINE r == [session[s] EXCEPT !.pc = "connecting", !.reader = FALSE, !.attempts = 1,
                                   !.reconnects = session[s].reconnects + 1]
<1>1. /\ session[s].pc = "running" /\ session[s].reconnects < MaxReconnects
      /\ Becomes(s, r)
      /\ conns' = [conns EXCEPT ![s][session[s].conn] = NoConn]
      /\ UNCHANGED <<readers, panics, autoRegAllowUsers>>
      /\ IsSession(session[s]) /\ Consistent(session[s])
  BY SessionFits DEF Reconnect, Becomes, regVars
<1>2. /\ IsSession(r) /\ r.held = session[s].held
      /\ r.conn = session[s].conn /\ r.late = session[s].late
      /\ r.pc = "connecting" /\ r.k = session[s].k /\ r.request = session[s].request
      /\ r.attempts = 1 /\ r.reconnects = session[s].reconnects + 1
  BY <1>1 DEF IsSession, Pcs
<1> HIDE DEF r
<1>3. AttemptOf(r) > AttemptOf(session[s]) /\ session[s].conn = AttemptOf(session[s])
  BY <1>1, <1>2, NextAttempt DEF Consistent
<1>4. ~r.held
  BY <1>1, <1>2 DEF Consistent, IsSession
<1>5. 1 \in 1 .. MaxAttempts /\ r.reconnects \in 1 .. MaxReconnects
  BY <1>1, <1>2, SessionAssumption DEF IsSession
<1>6. r.conn < AttemptOf(r)
  <2>1. AttemptOf(r) > r.conn
    BY <1>2, <1>3
  <2> QED
    BY <2>1
<1>7. Consistent(r)
  BY <1>1, <1>2, <1>4, <1>5, <1>6 DEF Consistent
<1>8. Counts(s, r) /\ Left(s, r)
  BY <1>1, <1>2, CountsNothing, AllLeft
<1>9. ConnTypes' /\ \A t \in Sessions \ {s} : conns'[t] = conns[t]
  <2>1. IsConn(NoConn)
    BY DEF IsConn, NoConn
  <2>2. conns' = [conns EXCEPT ![s] = [conns[s] EXCEPT ![session[s].conn] = NoConn]]
    BY <1>1 DEF Inv, Types
  <2> QED
    BY <2>1, <2>2 DEF Inv, Types, ConnTypes
<1> QED
  BY <1>1, <1>2, <1>7, <1>8, <1>9, SessionStep

\* A session that has authorized has both requests to send.
LEMMA DialSends ==
    ASSUME Inv, NEW s \in Sessions, session[s].pc = "connecting"
    PROVE  NoRequest \notin {session[s].k.subscribe, session[s].k.authorize}
BY SessionFits DEF IsSession, IsKnown, Consistent

\* A new attempt, whose number is above those of the attempts that are left.
LEMMA DialInv ==
    ASSUME Inv, NEW s \in Sessions, Dial(s)
    PROVE  Inv'
<1> DEFINE a == AttemptOf(session[s])
           r == [session[s] EXCEPT !.pc = "authorizing", !.conn = a, !.reader = TRUE]
           new == [session |-> s, attempt |-> a, on |-> a, authMsgCounter |-> 0, result |-> "none"]
<1>1. /\ session[s].pc = "connecting" /\ Becomes(s, r)
      /\ readers' = readers \cup {new}
      /\ UNCHANGED <<panics, autoRegAllowUsers>>
      /\ IsSession(session[s]) /\ Consistent(session[s])
  <2>1. session[s].pc = "connecting"
    BY DEF Dial
  <2>2. NoRequest \notin {session[s].k.subscribe, session[s].k.authorize}
    BY <2>1, DialSends
  <2>3. /\ Becomes(s, r) /\ readers' = readers \cup {new}
        /\ UNCHANGED <<panics, autoRegAllowUsers>>
    BY <2>2 DEF Dial, Becomes, regVars
  <2> QED
    BY <2>1, <2>3, SessionFits
<1>2. PICK id \in BOOLEAN, todo \in Responses :
        conns' = [conns EXCEPT ![s][a] = [todo |-> todo, id |-> id, inOrder |-> todo \in InOrder,
                                          accepted |-> FALSE, open |-> TRUE]]
  BY <1>1, DialSends DEF Dial
<1>3. /\ a \in Attempts /\ a \in Nat \ {0} /\ session[s].conn < a
      /\ ~session[s].held
  BY <1>1, NextAttempt DEF Consistent, IsSession
<1>4. AttemptOf(r) = a
  BY <1>1 DEF AttemptOf, IsSession
<1> HIDE DEF a
<1>5. /\ IsSession(r) /\ r.held = session[s].held /\ r.late = session[s].late
      /\ r.conn = a /\ r.reader /\ r.pc = "authorizing"
      /\ r.k = session[s].k /\ r.request = session[s].request
      /\ r.attempts = session[s].attempts /\ r.reconnects = session[s].reconnects
  BY <1>1, <1>3 DEF IsSession, Pcs
<1>6. /\ new.session = s /\ new.attempt = a /\ new.on = a /\ new.result = "none"
      /\ IsReader(new)
  BY <1>3 DEF IsReader
<1> HIDE DEF r, new
<1>7. /\ DOMAIN session' = Sessions /\ session'[s] = r
      /\ \A t \in Sessions \ {s} : session'[t] = session[t]
  BY <1>1 DEF Inv, Types, Becomes
<1>8. /\ ConnTypes' /\ \A t \in Sessions \ {s} : conns'[t] = conns[t]
      /\ conns'[s][a].todo \in InOrder \/ ~conns'[s][a].inOrder
  <2> DEFINE c == [todo |-> todo, id |-> id, inOrder |-> todo \in InOrder,
                   accepted |-> FALSE, open |-> TRUE]
  <2>1. IsConn(c) /\ (c.todo \in InOrder \/ ~c.inOrder)
    <3> DEFINE ordered == todo \in InOrder
    <3>1. ordered \in BOOLEAN /\ (ordered => todo \in InOrder)
      OBVIOUS
    <3> HIDE DEF ordered
    <3>2. c = [todo |-> todo, id |-> id, inOrder |-> ordered, accepted |-> FALSE, open |-> TRUE]
      BY Zenon DEF ordered
    <3> HIDE DEF c
    <3>3. /\ DOMAIN c = {"todo", "id", "inOrder", "accepted", "open"}
          /\ c.todo = todo /\ c.id = id /\ c.inOrder = ordered /\ c.accepted = FALSE
      BY <3>2
    <3> QED
      BY <3>1, <3>3 DEF IsConn
  <2>2. conns' = [conns EXCEPT ![s] = [conns[s] EXCEPT ![a] = c]]
    BY <1>2 DEF Inv, Types
  <2> HIDE DEF c
  <2> QED
    BY <2>1, <2>2, <1>3 DEF Inv, Types, ConnTypes
<1>9. Consistent(r)
  BY <1>1, <1>3, <1>4, <1>5 DEF Consistent
<1>10. QuotaConserved' /\ autoRegAllowUsers' \in Int
  <2>1. \A t \in Sessions : session'[t].held = session[t].held
    BY <1>5, <1>7
  <2> QED
    BY <2>1, <1>1, QuotaKept DEF Inv
<1>11. Types'
  BY <1>1, <1>5, <1>6, <1>7, <1>8, <1>10 DEF Inv, Types, ConnTypes
<1>12. \A t \in Sessions : Consistent(session'[t])
  BY <1>7, <1>9 DEF Inv
<1>13. ASSUME NEW g \in readers, g.session = s
       PROVE  /\ session[s].late /\ g.result = "none"
              /\ g.attempt < a
  <2>1. ReaderFits(g) /\ g.attempt \in Attempts
    BY DEF Inv, Types, IsReader
  <2>2. g.attempt \in Nat /\ session[s].conn \in Nat
    BY <2>1, <1>1 DEF Attempts, IsSession
  <2>3. g.attempt <= session[s].conn
    BY <2>1, <1>13 DEF ReaderFits
  <2>4. session[s].late /\ g.result = "none"
    BY <2>1, <1>1, <1>13 DEF ReaderFits, IsSession
  <2> QED
    BY <2>2, <2>3, <2>4, <1>3
<1>14. ASSUME NEW g \in readers' PROVE ReaderFits(g)'
  <2>1. CASE g = new
    BY <2>1, <1>3, <1>5, <1>6, <1>7, <1>8 DEF ReaderFits, Agrees
  <2>2. CASE g \in readers /\ g.session # s
    BY <2>2, <1>7, <1>8 DEF Inv, Types, IsReader, ReaderFits, Matches
  <2>3. CASE g \in readers /\ g.session = s
    <3>1. g.attempt \in Nat
      BY <2>3 DEF Inv, Types, IsReader, Attempts
    <3>2. g.attempt < a /\ session[s].late /\ g.result = "none"
      BY <2>3, <1>13
    <3>3. g.attempt <= a /\ g.attempt # a
      BY <3>1, <3>2, <1>3
    <3> QED
      BY <2>3, <3>2, <3>3, <1>5, <1>7 DEF ReaderFits
  <2> QED
    BY <2>1, <2>2, <2>3, <1>1
<1>15. ReadersDiffer'
  <2> SUFFICES ASSUME NEW g \in readers', NEW h \in readers',
                      g.session = h.session, g.attempt = h.attempt
               PROVE  g = h
    BY DEF ReadersDiffer
  <2>1. CASE g = new
    <3>1. ASSUME h \in readers PROVE FALSE
      <4>1. h.attempt < a /\ h.attempt = a
        BY <2>1, <3>1, <1>6, <1>13
      <4> QED
        BY <4>1, <1>3
    <3> QED
      BY <2>1, <3>1, <1>1
  <2>2. CASE h = new
    <3>1. ASSUME g \in readers PROVE FALSE
      <4>1. g.attempt < a /\ g.attempt = a
        BY <2>2, <3>1, <1>6, <1>13
      <4> QED
        BY <4>1, <1>3
    <3> QED
      BY <2>2, <3>1, <1>1
  <2>3. CASE g \in readers /\ h \in readers
    BY <2>3 DEF Inv, ReadersDiffer
  <2> QED
    BY <2>1, <2>2, <2>3, <1>1
<1>16. RunningFits'
  BY <1>5, <1>7, <1>8 DEF Inv, RunningFits, Matches
<1> QED
  BY <1>10, <1>11, <1>12, <1>14, <1>15, <1>16 DEF Inv

-----------------------------------------------------------------------------
(* The goroutines that read responses *)

\* A connection after a response was read from it.
Follows(new, old) ==
    /\ new.id = old.id /\ new.inOrder = old.inOrder
    /\ old.accepted => new.accepted

\* A step of one goroutine, which ends, or goes on for the same attempt.
LEMMA ReaderStep ==
    ASSUME Inv, NEW g \in readers, NEW h,
           UNCHANGED <<session, panics, autoRegAllowUsers>>,
           readers' \subseteq (readers \ {g}) \cup {h},
           h \in readers' => /\ IsReader(h) /\ h.session = g.session /\ h.attempt = g.attempt
                             /\ ReaderFits(h)',
           ConnTypes',
           \A t \in Sessions : \A a \in Attempts : Follows(conns'[t][a], conns[t][a]),
           \A t \in Sessions \ {g.session} : conns'[t] = conns[t]
    PROVE  Inv'
<1>1. QuotaConserved' /\ autoRegAllowUsers' \in Int
  BY QuotaKept DEF Inv
<1>2. Types'
  BY <1>1 DEF Inv, Types, ConnTypes
<1>3. ASSUME NEW f \in readers', f # h PROVE ReaderFits(f)'
  <2>1. f \in readers /\ f # g /\ ReaderFits(f) /\ IsReader(f) /\ IsReader(g) /\ ReaderFits(g)
    BY <1>3 DEF Inv, Types
  <2> DEFINE t == f.session
             c == session[t].conn
  <2>2. CASE t # g.session
    BY <2>1, <2>2 DEF ReaderFits, Matches, IsReader
  <2>3. CASE t = g.session
    <3>1. f.attempt # g.attempt
      BY <2>1, <2>3 DEF Inv, ReadersDiffer
    <3>2. session[t].late
      BY <2>1, <2>3, <3>1 DEF ReaderFits, Inv, Types, IsReader, IsSession
    <3>3. f.attempt \in Nat \ {0} /\ c \in {0} \cup Attempts /\ f.attempt <= c
      BY <2>1 DEF IsReader, Attempts, Inv, Types, IsSession, ReaderFits
    <3>4. c \in Attempts
      BY <3>3
    <3>5. Follows(conns'[t][c], conns[t][c])
      BY <2>1, <3>4 DEF IsReader
    <3> QED
      BY <2>1, <3>2, <3>5 DEF ReaderFits, Matches, Agrees, Follows
  <2> QED
    BY <2>2, <2>3
<1>4. \A f \in readers' : ReaderFits(f)'
  BY <1>3
<1>5. ReadersDiffer'
  <2> SUFFICES ASSUME NEW e \in readers', NEW f \in readers',
                      e.session = f.session, e.attempt = f.attempt
               PROVE  e = f
    BY DEF ReadersDiffer
  <2>1. \A i, j \in readers : i.session = j.session /\ i.attempt = j.attempt => i = j
    BY DEF Inv, ReadersDiffer
  <2>2. CASE e # h /\ f # h
    BY <2>1, <2>2
  <2>3. CASE e = h /\ f # h
    BY <2>1, <2>3
  <2>4. CASE e # h /\ f = h
    BY <2>1, <2>4
  <2> QED
    BY <2>2, <2>3, <2>4
<1>6. RunningFits'
  <2> SUFFICES ASSUME NEW t \in Sessions, session[t].pc = "running"
               PROVE  /\ session[t].conn # 0
                      /\ conns'[t][session[t].conn].accepted
                      /\ Matches(t)'
    BY DEF RunningFits
  <2>1. session[t].conn \in Attempts
    BY DEF Inv, Types, IsSession, RunningFits
  <2>2. Follows(conns'[t][session[t].conn], conns[t][session[t].conn])
    BY <2>1
  <2> QED
    BY <2>1, <2>2 DEF Inv, RunningFits, Matches, Agrees, Follows
<1> QED
  BY <1>1, <1>2, <1>4, <1>5, <1>6 DEF Inv

\* The goroutine of an attempt that is still awaited.
LEMMA ReaderNow ==
    ASSUME Inv, NEW g \in readers, g.result = "none"
    PROVE  LET s == g.session
               c == session[s].conn
           IN /\ s \in Sessions /\ IsReader(g) /\ ReaderFits(g) /\ c \in Attempts
              /\ IsSession(session[s])
              /\ ~session[s].late =>
                   /\ session[s].pc = "authorizing" /\ session[s].reader
                   /\ g.attempt = c /\ g.on = c
                   /\ Agrees(session[s].k, conns[s][c]) \/ conns[s][c].todo \in InOrder
<1>1. g.session \in Sessions /\ IsReader(g) /\ ReaderFits(g) /\ IsSession(session[g.session])
  BY DEF Inv, Types, IsReader
<1>2. /\ session[g.session].conn \in {0} \cup Attempts /\ g.attempt \in Nat \ {0}
      /\ g.attempt <= session[g.session].conn
  BY <1>1 DEF IsSession, IsReader, Attempts, ReaderFits
<1>3. session[g.session].conn \in Attempts
  BY <1>2
<1> QED
  BY <1>1, <1>3 DEF ReaderFits, IsSession

\* The end of a goroutine, with what it has read.
LEMMA EndsInv ==
    ASSUME Inv, NEW g \in readers, NEW result \in {"accepted", "failed"},
           g.result = "none", Ends(g, result),
           UNCHANGED <<session, panics, autoRegAllowUsers>>,
           ConnTypes',
           \A t \in Sessions : \A a \in Attempts : Follows(conns'[t][a], conns[t][a]),
           \A t \in Sessions \ {g.session} : conns'[t] = conns[t],
           result = "accepted" =>
              /\ conns'[g.session][g.on].accepted
              /\ conns[g.session][g.on].todo \notin InOrder
    PROVE  Inv'
<1> DEFINE s == g.session
           c == session[s].conn
           h == [g EXCEPT !.result = result]
<1>1. /\ s \in Sessions /\ IsReader(g) /\ ReaderFits(g) /\ c \in Attempts
      /\ ~session[s].late => /\ session[s].reader /\ session[s].pc = "authorizing"
                             /\ g.attempt = c /\ g.on = c
                             /\ Agrees(session[s].k, conns[s][c]) \/ conns[s][c].todo \in InOrder
  BY ReaderNow
<1>2. /\ readers' \subseteq (readers \ {g}) \cup {h}
      /\ h \in readers' => (session[s].pc = "authorizing" /\ c = g.attempt)
                           \/ (h \in readers /\ h # g)
  <2> DEFINE awaited == session[s].pc = "authorizing" /\ session[s].conn = g.attempt
  <2>1. readers' = (readers \ {g}) \cup (IF awaited THEN {h} ELSE {})
    BY DEF Ends
  <2> HIDE DEF h
  <2>2. CASE awaited
    <3>1. readers' = (readers \ {g}) \cup {h}
      BY <2>1, <2>2
    <3> QED
      BY <2>2, <3>1
  <2>3. CASE ~awaited
    <3>1. readers' = readers \ {g}
      BY <2>1, <2>3
    <3> QED
      BY <3>1
  <2> QED
    BY <2>2, <2>3
<1>3. /\ IsReader(h) /\ h.session = s /\ h.attempt = g.attempt /\ h.on = g.on
      /\ h.result = result
  BY <1>1 DEF IsReader
<1> HIDE DEF h
<1>4. h \in readers => h = g
  BY <1>3 DEF Inv, ReadersDiffer
<1>5. h \in readers' => session[s].pc = "authorizing" /\ c = g.attempt /\ g.on = c
  BY <1>1, <1>2, <1>4 DEF ReaderFits
<1>6. Follows(conns'[s][c], conns[s][c])
  BY <1>1
<1>7. ASSUME h \in readers' PROVE ReaderFits(h)'
  BY <1>1, <1>3, <1>5, <1>6, <1>7 DEF ReaderFits, Matches, Agrees, Follows
<1> QED
  BY <1>2, <1>3, <1>7, ReaderStep

LEMMA ReadFailsInv ==
    ASSUME Inv, NEW g \in readers, ReadFails(g)
    PROVE  Inv'
<1>1. /\ g.result = "none" /\ Ends(g, "failed")
      /\ conns' = [conns EXCEPT ![g.session][g.on].open = FALSE]
      /\ UNCHANGED <<session, panics, autoRegAllowUsers>>
  BY DEF ReadFails, regVars
<1>2. g.session \in Sessions /\ g.on \in Attempts
  BY <1>1, ReaderNow DEF IsReader
<1> DEFINE new == [conns[g.session][g.on] EXCEPT !.open = FALSE]
<1>3. IsConn(new) /\ Follows(new, conns[g.session][g.on])
  BY <1>2 DEF Inv, Types, IsConn, Follows
<1>4. conns' = [conns EXCEPT ![g.session] = [conns[g.session] EXCEPT ![g.on] = new]]
  BY <1>1, <1>2 DEF Inv, Types
<1> HIDE DEF new
<1>5. ConnTypes' /\ \A t \in Sessions \ {g.session} : conns'[t] = conns[t]
  BY <1>2, <1>3, <1>4 DEF Inv, Types, ConnTypes
<1>6. \A t \in Sessions : \A a \in Attempts : Follows(conns'[t][a], conns[t][a])
  BY <1>2, <1>3, <1>4 DEF Inv, Types, Follows
<1> QED
  BY <1>1, <1>5, <1>6, EndsInv

\* The response that is read first is not that to mining.authorize.
LEMMA AuthIsSecond ==
    ASSUME NEW todo, Head(todo) = "auth"
    PROVE  todo \notin InOrder
BY DEF InOrder

\* Connections of which those of one session were read from or written to.
FollowAt(s, f) ==
    /\ DOMAIN f = Sessions
    /\ \A t \in Sessions : DOMAIN f[t] = Attempts
    /\ \A t \in Sessions : \A b \in Attempts : IsConn(f[t][b]) /\ Follows(f[t][b], conns[t][b])
    /\ \A t \in Sessions \ {s} : f[t] = conns[t]

Puts(f, s, a, c) == conns' = [f EXCEPT ![s] = [f[s] EXCEPT ![a] = c]]

\* A change of one connection.
LEMMA ConnStep ==
    ASSUME Inv, NEW s \in Sessions, NEW a \in Attempts, NEW f, NEW c,
           FollowAt(s, f), IsConn(c), Follows(c, f[s][a]), Puts(f, s, a, c)
    PROVE  /\ ConnTypes'
           /\ \A t \in Sessions : \A b \in Attempts : Follows(conns'[t][b], conns[t][b])
           /\ \A t \in Sessions \ {s} : conns'[t] = conns[t]
           /\ conns'[s][a] = c
<1> USE DEF FollowAt, Puts
<1>1. ConnTypes' /\ conns'[s][a] = c /\ \A t \in Sessions \ {s} : conns'[t] = conns[t]
  BY DEF ConnTypes
<1>2. ASSUME NEW t \in Sessions, NEW b \in Attempts
      PROVE  Follows(conns'[t][b], conns[t][b])
  <2>1. CASE t = s /\ b = a
    BY <2>1, <1>1 DEF Follows
  <2>2. CASE ~(t = s /\ b = a)
    <3>1. conns'[t][b] = f[t][b]
      BY <2>2
    <3> QED
      BY <3>1
  <2> QED
    BY <2>1, <2>2
<1> QED
  BY <1>1, <1>2

\* A response that does not end the goroutine, or is of no use, or the panic.
LEMMA ReadResponseInv ==
    ASSUME Inv, NEW g \in readers, ReadResponse(g)
    PROVE  /\ Inv'
           /\ panics' # panics => session[g.session].late
<1> DEFINE s == g.session
           conn == conns[s][g.on]
           isAuth == Head(conn.todo) = "auth"
           read == [conns EXCEPT ![s][g.on].todo = Tail(@)]
           current == session[s].conn
<1>1. g.result = "none"
  BY DEF ReadResponse
<1>2. PICK success \in BOOLEAN :
        LET counter == g.authMsgCounter + (IF isAuth THEN 1 ELSE 0)
            again == counter = 1
            next == IF again THEN [read EXCEPT ![s][current].todo = Append(@, "auth")] ELSE read
            accepts == isAuth /\ success
            refuses == ~isAuth /\ ~(success /\ SubscribeMatches(session[s].k, conn))
        IN IF refuses \/ accepts \/ counter = 2
           THEN /\ \E result \in {"failed"} \cup (IF accepts THEN {"accepted"} ELSE {}) : Ends(g, result)
                /\ conns' = [read EXCEPT ![s][g.on].accepted = @ \/ accepts]
                /\ UNCHANGED <<session, panics, regVars>>
           ELSE IF ~session[s].reader \/ (again /\ session[s].pc = "stopped") THEN Panic
           ELSE /\ readers' = (readers \ {g}) \cup
                      {[g EXCEPT !.authMsgCounter = counter, !.on = current]}
                /\ conns' = next
                /\ UNCHANGED <<session, panics, regVars>>
  BY DEF ReadResponse
<1> DEFINE counter == g.authMsgCounter + (IF isAuth THEN 1 ELSE 0)
           again == counter = 1
           accepts == isAuth /\ success
           refuses == ~isAuth /\ ~(success /\ SubscribeMatches(session[s].k, conn))
           rc == [conn EXCEPT !.todo = Tail(conn.todo)]
<1>3. /\ s \in Sessions /\ IsReader(g) /\ g.on \in Attempts /\ current \in Attempts
      /\ IsSession(session[s]) /\ ReaderFits(g)
      /\ ~session[s].late =>
           /\ session[s].pc = "authorizing" /\ session[s].reader
           /\ g.attempt = current /\ g.on = current
           /\ Agrees(session[s].k, conn) \/ conn.todo \in InOrder
  BY <1>1, ReaderNow DEF IsReader
<1>4. isAuth => conn.todo \notin InOrder
  BY AuthIsSecond
<1>5. IsConn(rc) /\ Follows(rc, conn) /\ rc.accepted = conn.accepted
  BY <1>3 DEF Inv, Types, IsConn, Follows
<1>6. read = [conns EXCEPT ![s] = [conns[s] EXCEPT ![g.on] = rc]]
  BY <1>3 DEF Inv, Types
<1> HIDE DEF isAuth, rc, read
<1>7. FollowAt(s, read) /\ read[s][g.on] = rc
  BY <1>3, <1>5, <1>6 DEF Inv, Types, Follows, FollowAt
<1>8. CASE refuses \/ accepts \/ counter = 2
  <2> DEFINE c == [rc EXCEPT !.accepted = rc.accepted \/ accepts]
  <2>0. PICK result \in {"failed"} \cup (IF accepts THEN {"accepted"} ELSE {}) : Ends(g, result)
    BY <1>2, <1>8
  <2>1. /\ conns' = [read EXCEPT ![s][g.on].accepted = @ \/ accepts]
        /\ UNCHANGED <<session, panics, autoRegAllowUsers>>
    BY <1>2, <1>8 DEF regVars
  <2>2. Puts(read, s, g.on, c)
    BY <2>1, <1>3, <1>7 DEF Puts, FollowAt
  <2>3. IsConn(c) /\ Follows(c, read[s][g.on]) /\ (accepts => c.accepted)
    BY <1>5, <1>7 DEF IsConn, Follows
  <2>4. result \in {"accepted", "failed"} /\ (result = "accepted" => isAuth /\ c.accepted)
    BY <2>0, <2>3
  <2> HIDE DEF c
  <2>5. /\ ConnTypes'
        /\ \A t \in Sessions : \A b \in Attempts : Follows(conns'[t][b], conns[t][b])
        /\ \A t \in Sessions \ {s} : conns'[t] = conns[t]
        /\ conns'[s][g.on] = c
    BY <2>2, <2>3, <1>3, <1>7, ConnStep
  <2> QED
    BY <2>0, <2>1, <2>4, <2>5, <1>1, <1>4, EndsInv
<1>9. CASE ~(refuses \/ accepts \/ counter = 2)
  <2>1. CASE ~session[s].reader \/ (again /\ session[s].pc = "stopped")
    <3>1. Panic
      BY <1>2, <1>9, <2>1
    <3>2. session[s].late
      BY <1>3, <2>1 DEF IsSession
    <3> QED
      BY <3>1, <3>2, PanicInv
  <2>2. CASE ~(~session[s].reader \/ (again /\ session[s].pc = "stopped"))
    <3> DEFINE c == [read[s][current] EXCEPT !.todo = Append(read[s][current].todo, "auth")]
    <3>0. PICK h : h = [g EXCEPT !.authMsgCounter = counter, !.on = current]
      OBVIOUS
    <3>1. /\ readers' = (readers \ {g}) \cup {h}
          /\ conns' = IF again THEN [read EXCEPT ![s][current].todo = Append(@, "auth")] ELSE read
          /\ UNCHANGED <<session, panics, autoRegAllowUsers>>
      BY <1>2, <1>9, <2>2, <3>0 DEF regVars
    <3>2. /\ IsReader(h) /\ h.session = s /\ h.attempt = g.attempt /\ h.on = current
          /\ h.result = "none"
      BY <1>1, <1>3, <3>0 DEF IsReader
    <3>3. IsConn(c) /\ Follows(c, read[s][current])
      BY <1>3, <1>7 DEF IsConn, Follows, FollowAt
    <3>4. /\ ConnTypes'
          /\ \A t \in Sessions : \A b \in Attempts : Follows(conns'[t][b], conns[t][b])
          /\ \A t \in Sessions \ {s} : conns'[t] = conns[t]
      <4>1. CASE again
        <5>1. Puts(read, s, current, c)
          BY <3>1, <4>1, <1>3, <1>7 DEF Puts, FollowAt
        <5> HIDE DEF c
        <5> QED
          BY <5>1, <3>3, <1>3, <1>7, ConnStep
      <4>2. CASE ~again
        BY <3>1, <4>2, <1>7 DEF ConnTypes, FollowAt
      <4> QED
        BY <4>1, <4>2
    <3>5. ~session[s].late => Agrees(session[s].k, conns[s][current])
      BY <1>3, <1>4, <1>9 DEF SubscribeMatches, Agrees
    <3>6. ReaderFits(h)'
      <4>1. Follows(conns'[s][current], conns[s][current])
        BY <3>4, <1>3
      <4>2. /\ session[s].conn = current /\ g.attempt <= current
            /\ ~session[s].late =>
                  /\ session[s].pc = "authorizing" /\ session[s].reader /\ g.attempt = current
        BY <1>3 DEF ReaderFits
      <4>3. Agrees(session[s].k, conns'[s][current]) <=> Agrees(session[s].k, conns[s][current])
        BY <4>1 DEF Follows, Agrees
      <4>4. session' = session
        BY <3>1
      <4> QED
        BY <4>2, <4>3, <4>4, <3>2, <3>5 DEF ReaderFits
    <3>7. readers' \subseteq (readers \ {g}) \cup {h}
      BY <3>1
    <3>8. Inv'
      BY <3>1, <3>2, <3>4, <3>6, <3>7, ReaderStep
    <3> QED
      BY <3>1, <3>8
  <2> QED
    BY <2>1, <2>2
<1> QED
  BY <1>8, <1>9

-----------------------------------------------------------------------------
(* The theorems *)

\* A goroutine that handles a request for a session that was stopped for its
\* time limit.
LEMMA HandleRequestLateInv ==
    ASSUME Inv, NEW s \in Sessions, HandleRequestLate(s)
    PROVE  Inv' /\ session[s].late
<1>1. /\ session[s].pc = "stopped" /\ session[s].late
      /\ IsSession(session[s]) /\ Consistent(session[s])
  BY SessionFits DEF HandleRequestLate, Consistent
<1>2. CASE Panic
  BY <1>1, <1>2, PanicInv
<1>3. CASE ~Panic
  <2> DEFINE r == [session[s] EXCEPT !.request = NoRequest]
  <2>1. Becomes(s, r) /\ UNCHANGED <<readers, conns, panics, autoRegAllowUsers>>
    BY <1>3 DEF HandleRequestLate, Becomes, regVars
  <2>2. /\ IsSession(r) /\ Consistent(r) /\ r.held = session[s].held
        /\ r.conn = session[s].conn /\ r.late = session[s].late /\ r.pc = "stopped"
    BY <1>1 DEF IsSession, Consistent
  <2> HIDE DEF r
  <2> QED
    BY <1>1, <2>1, <2>2, CountsNothing, OwnStep
<1> QED
  BY <1>2, <1>3

LEMMA HandleNullInv ==
    ASSUME Inv, NEW s \in Sessions, HandleNull(s)
    PROVE  Inv' /\ MalformedNext
BY PanicInv DEF HandleNull, MalformedNext

LEMMA ReadMalformedInv ==
    ASSUME Inv, NEW g \in readers, ReadMalformed(g)
    PROVE  Inv' /\ MalformedNext
BY PanicInv DEF ReadMalformed, MalformedNext

\* Sessions and connections do not see a step of the service before it deletes
\* the node.
LEMMA UnchangedInv ==
    ASSUME Inv, UNCHANGED <<session, readers, conns, panics, autoRegAllowUsers>>
    PROVE  Inv'
BY DEF Inv, Types, ReaderFits, Matches, ReadersDiffer, RunningFits, QuotaConserved, Held

LEMMA NextInv ==
    ASSUME Inv, Next
    PROVE  /\ Inv'
           /\ panics' # panics => MalformedNext \/ \E s \in Sessions : session[s].late
<1>1. ASSUME NEW s \in Sessions, ClientStep(s)
      PROVE  Inv' /\ (panics' # panics => MalformedNext \/ session[s].late)
  <2>1. CASE ReadRequest(s)
    BY <2>1, ReadRequestInv DEF ReadRequest
  <2>2. CASE HandleRequestLate(s)
    BY <2>2, HandleRequestLateInv
  <2>3. CASE HandleRequest(s)
    BY <2>3, HandleRequestInv DEF HandleRequest
  <2>4. CASE FindWorkerNameFails(s)
    BY <2>4, FindWorkerNameFailsInv DEF FindWorkerNameFails
  <2>5. CASE HandleNull(s)
    BY <2>5, HandleNullInv
  <2> QED
    BY <1>1, <2>1, <2>2, <2>3, <2>4, <2>5 DEF ClientStep
<1>2. ASSUME NEW s \in Sessions, RegistrationStep(s)
      PROVE  Inv' /\ UNCHANGED panics
  <2>1. CASE FindMiningCoin(s)
    BY <2>1, FindMiningCoinInv DEF FindMiningCoin
  <2>2. CASE CheckRegistration(s)
    BY <2>2, CheckRegistrationInv DEF CheckRegistration
  <2>3. CASE CountRegistration(s)
    BY <2>3, CountRegistrationInv DEF CountRegistration
  <2>4. CASE CreateRegistration(s)
    BY <2>4, CreateRegistrationInv DEF CreateRegistration
  <2>5. CASE WatchRegistration(s)
    BY <2>5, WatchRegistrationInv DEF WatchRegistration
  <2> QED
    BY <1>2, <2>1, <2>2, <2>3, <2>4, <2>5 DEF RegistrationStep
<1>3. ASSUME NEW s \in Sessions, ServerStep(s)
      PROVE  Inv' /\ UNCHANGED panics
  <2>1. CASE Dial(s)
    <3>1. NoRequest \notin {session[s].k.subscribe, session[s].k.authorize}
      BY <2>1, DialSends DEF Dial
    <3> QED
      BY <2>1, <3>1, DialInv DEF Dial
  <2>2. CASE DialFails(s)
    BY <2>2, DialFailsInv DEF DialFails
  <2>3. CASE AuthorizeEnds(s)
    BY <2>3, AuthorizeEndsInv DEF AuthorizeEnds
  <2>4. CASE AuthorizeTimeout(s)
    BY <2>4, AuthorizeTimeoutInv DEF AuthorizeTimeout
  <2>5. CASE TakeReader(s)
    BY <2>5, TakeReaderInv DEF TakeReader
  <2>6. CASE Reconnect(s)
    BY <2>6, ReconnectInv DEF Reconnect
  <2> QED
    BY <1>3, <2>1, <2>2, <2>3, <2>4, <2>5, <2>6 DEF ServerStep
<1>4. ASSUME NEW g \in readers, ReadResponse(g) \/ ReadMalformed(g) \/ ReadFails(g)
      PROVE  Inv' /\ (panics' # panics => MalformedNext \/ \E s \in Sessions : session[s].late)
  <2>1. g.session \in Sessions
    BY DEF Inv, Types, IsReader
  <2>2. CASE ReadResponse(g)
    BY <2>1, <2>2, ReadResponseInv
  <2>3. CASE ReadFails(g)
    BY <2>3, ReadFailsInv DEF ReadFails
  <2>4. CASE ReadMalformed(g)
    BY <2>4, ReadMalformedInv
  <2> QED
    BY <1>4, <2>2, <2>3, <2>4
<1>5. CASE ServiceStep \/ ServiceRestarts
  <2>1. CASE ServiceDeletes
    BY <2>1, ServiceDeletesInv DEF ServiceDeletes
  <2>2. CASE ServiceTakes \/ ServicePosts \/ ServiceSetsCoin \/ ServiceRestarts
    <3>1. UNCHANGED <<session, readers, conns, panics, autoRegAllowUsers>>
      BY <2>2 DEF ServiceTakes, ServicePosts, ServiceSetsCoin, ServiceRestarts
    <3> QED
      BY <3>1, UnchangedInv
  <2> QED
    BY <1>5, <2>1, <2>2 DEF ServiceStep
<1> QED
  BY <1>1, <1>2, <1>3, <1>4, <1>5 DEF Next

\* The invariant holds in every reachable state.
THEOREM Invariance == Spec => []Inv
<1>1. Inv /\ [Next]_vars => Inv'
  <2>1. Inv /\ Next => Inv'
    BY NextInv
  <2>2. Inv /\ UNCHANGED vars => Inv'
    BY UnchangedInv DEF vars, regVars
  <2> QED
    BY <2>1, <2>2
<1> QED
  BY <1>1, InitInv, PTL DEF Spec

\* Every registration that is given up or ends gives back what it took from the
\* number of those that may wait (tryAutoReg), for any number of sessions.
THEOREM QuotaIsConserved == Spec => []QuotaConserved
<1>1. Inv => QuotaConserved
  BY DEF Inv
<1> QED
  BY <1>1, Invariance, PTL

\* A session proxies only for a server that accepted its miner, and, where the
\* protocol has an ID in the response, for one that uses its session ID, if the
\* server responds in order and no time limit was reached before
\* (connectStratumServer and serverSubscribeAndAuthorize), in any number of
\* reconnections and attempts.
THEOREM RunningAccepted == Spec => []RunningIsAccepted
<1>1. Inv => RunningIsAccepted
  BY DEF Inv, RunningFits, Matches, Agrees, RunningIsAccepted
<1> QED
  BY <1>1, Invariance, PTL

\* No order of requests and responses ends the process by a nil pointer: there is
\* a malformed line to read, or a goroutine has outlived a time limit.
THEOREM PanicsForACause == Spec => PanicHasCause
<1> DEFINE Step == panics' # panics => MalformedNext \/ \E s \in Sessions : session[s].late
<1>1. Inv /\ [Next]_vars => [Step]_vars
  BY NextInv
<1>2. PanicHasCause <=> [][Step]_vars
  BY DEF PanicHasCause
<1> HIDE DEF Step
<1> QED
  BY <1>1, <1>2, Invariance, PTL DEF Spec

-----------------------------------------------------------------------------
(* What a session knows, and what is made of it after an upgrade *)

\* The kind of client: what the response to mining.subscribe depends on.
IsKind(k, protocol, agent, niceHash) ==
    /\ k.protocolType = protocol
    /\ k.isBTCAgent \in BOOLEAN /\ (k.isBTCAgent <=> agent)
    /\ k.isNiceHashClient \in BOOLEAN /\ (k.isNiceHashClient <=> niceHash)

NewKind(k) == IsKind(k, getDefaultStratumProtocol, FALSE, FALSE)
LoginKind(k) == IsKind(k, "EthereumProxy", FALSE, FALSE)

Agent(r) == r.userAgent = "btccom-agent"

SubscribedKind(k, r) ==
    IsKind(k, IF ChainType # "ethereum" THEN getDefaultStratumProtocol
              ELSE IF Agent(r) \/ r.protocol = "ethereumstratum/"
                   THEN "EthereumStratumNiceHash" ELSE "EthereumStratum",
           Agent(r), ChainType = "ethereum" /\ r.userAgent = "nicehash")

\* Two sessions of one kind.
SameKind(k, p) ==
    /\ p.protocolType = k.protocolType
    /\ p.isBTCAgent = k.isBTCAgent /\ p.isNiceHashClient = k.isNiceHashClient

LEMMA KindCarries ==
    ASSUME NEW k, NEW p, SameKind(k, p)
    PROVE  /\ NewKind(k) => NewKind(p)
           /\ LoginKind(k) => LoginKind(p)
           /\ \A r : SubscribedKind(k, r) => SubscribedKind(p, r)
BY DEF SameKind, NewKind, LoginKind, SubscribedKind, IsKind

\* The saved requests tell what the session has become.  One that has logged in
\* without subscribing has a request that it did not send.
SubscribeFits(k) ==
    \/ k.subscribe.method = "mining.subscribe" /\ SubscribedKind(k, k.subscribe)
    \/ /\ ChainType = "ethereum"
       /\ k.subscribe = makeSubscribeMessageForEthProxy
       /\ LoginKind(k)

AuthorizeFits(k) ==
    /\ k.authorize.method \in {"mining.authorize", "eth_submitLogin"}
    /\ k.authorize.worker # NoName
    /\ k.subaccountName = k.authorize.worker

SavedFits(k) ==
    /\ IsKnown(k)
    /\ k.stat = "connected" => NewKind(k)
    /\ k.stat = "connected" \/ k.protocolType # "EthereumProxy" => k.jsonRPCVersion = 1
    /\ k.stat # "connected" => SubscribeFits(k)
    /\ k.stat = "authorized" => AuthorizeFits(k)

LEMMA NewFits ==
    ASSUME NEW mask
    PROVE  /\ SavedFits(NewSession(mask)) /\ NewSession(mask).stat = "connected"
           /\ NewSession(mask).versionMask = mask
BY NewIsKnown DEF NewSession, SavedFits, NewKind, IsKind

LEMMA SubscribeKind ==
    ASSUME NEW k, NEW r, IsKnown(k), NewKind(k),
           NEW p, p = parseSubscribeRequest(k, r)
    PROVE  /\ SubscribedKind(p, r)
           /\ p.stat = "subscribed" /\ p.subscribe = r
           /\ p.versionMask = k.versionMask /\ p.jsonRPCVersion = k.jsonRPCVersion
<1>1. /\ p.stat = "subscribed" /\ p.subscribe = r
      /\ p.versionMask = k.versionMask /\ p.jsonRPCVersion = k.jsonRPCVersion
      /\ p.isBTCAgent = (k.isBTCAgent \/ Agent(r))
      /\ p.isNiceHashClient = (k.isNiceHashClient \/ (ChainType = "ethereum" /\ r.userAgent = "nicehash"))
      /\ p.protocolType = IF ChainType # "ethereum" THEN k.protocolType
                          ELSE IF Agent(r) \/ r.protocol = "ethereumstratum/"
                               THEN "EthereumStratumNiceHash" ELSE "EthereumStratum"
  BY DEF parseSubscribeRequest, IsKnown, Agent
<1>2. /\ p.isBTCAgent \in BOOLEAN /\ (p.isBTCAgent <=> Agent(r))
      /\ p.isNiceHashClient \in BOOLEAN
      /\ p.isNiceHashClient <=> (ChainType = "ethereum" /\ r.userAgent = "nicehash")
  BY <1>1 DEF NewKind, IsKind
<1> QED
  BY <1>1, <1>2 DEF NewKind, SubscribedKind, IsKind

LEMMA AuthorizeKeeps ==
    ASSUME NEW k, NEW r, IsKnown(k), NEW p, p = parseAuthorizeRequest(k, r)
    PROVE  /\ SameKind(k, p)
           /\ p.subscribe = k.subscribe /\ p.authorize = r /\ p.subaccountName = r.worker
           /\ p.stat = IF r.worker = NoName THEN k.stat ELSE "authorized"
           /\ p.versionMask = k.versionMask /\ p.jsonRPCVersion = k.jsonRPCVersion
BY DEF parseAuthorizeRequest, SameKind, IsKnown

LEMMA SubscribedFits ==
    ASSUME NEW k, NEW r, SavedFits(k), k.stat = "connected", r # NoRequest,
           r.method = "mining.subscribe", NEW p, p = parseSubscribeRequest(k, r)
    PROVE  SavedFits(p)
<1>1. IsKnown(p)
  BY SubscribeKnown DEF SavedFits
<1>2. /\ SubscribedKind(p, r) /\ p.stat = "subscribed" /\ p.subscribe = r
      /\ p.jsonRPCVersion = 1
  BY SubscribeKind DEF SavedFits
<1> QED
  BY <1>1, <1>2 DEF SavedFits, SubscribeFits

LEMMA AuthorizedFits ==
    ASSUME NEW k, NEW r, SavedFits(k), k.stat = "subscribed", r # NoRequest,
           r.method \in {"mining.authorize", "eth_submitLogin"},
           NEW p, p = parseAuthorizeRequest(k, r)
    PROVE  SavedFits(p)
<1>1. IsKnown(p)
  BY AuthorizeKnown DEF SavedFits
<1>2. /\ SameKind(k, p) /\ p.subscribe = k.subscribe
      /\ p.authorize = r /\ p.subaccountName = r.worker
      /\ p.stat = IF r.worker = NoName THEN k.stat ELSE "authorized"
      /\ p.jsonRPCVersion = k.jsonRPCVersion /\ p.protocolType = k.protocolType
  BY AuthorizeKeeps DEF SavedFits, SameKind
<1>3. SubscribeFits(p)
  BY <1>2, KindCarries DEF SavedFits, SubscribeFits
<1>4. p.stat = "authorized" => AuthorizeFits(p)
  BY <1>2 DEF AuthorizeFits
<1> QED
  BY <1>1, <1>2, <1>3, <1>4 DEF SavedFits

\* A login before the subscription makes one up; one after it changes nothing but
\* the version of the answers.
LEMMA LoginFits ==
    ASSUME NEW k, SavedFits(k), k.stat # "authorized", NEW p, p = submitLogin(k)
    PROVE  SavedFits(p) /\ p.stat # "authorized"
<1>1. CASE k.protocolType = "EthereumProxy"
  <2>1. IsKnown(p)
    BY LoginKnown DEF SavedFits
  <2>2. /\ p.stat = "subscribed" /\ p.subscribe = makeSubscribeMessageForEthProxy
        /\ SameKind(k, p) /\ p.protocolType = "EthereumProxy"
    BY <1>1 DEF submitLogin, SavedFits, IsKnown, SameKind
  <2>3. ChainType = "ethereum" /\ LoginKind(k)
    <3>1. CASE k.stat = "connected"
      BY <1>1, <3>1 DEF SavedFits, NewKind, LoginKind, IsKind, getDefaultStratumProtocol
    <3>2. CASE k.stat # "connected"
      <4>1. ~SubscribedKind(k, k.subscribe)
        BY <1>1 DEF SubscribedKind, IsKind, getDefaultStratumProtocol
      <4> QED
        BY <3>2, <4>1 DEF SavedFits, SubscribeFits
    <3> QED
      BY <3>1, <3>2
  <2>4. SubscribeFits(p)
    BY <2>2, <2>3, KindCarries DEF SubscribeFits
  <2> QED
    BY <2>1, <2>2, <2>4 DEF SavedFits
<1>2. CASE k.protocolType # "EthereumProxy"
  BY <1>2 DEF submitLogin
<1> QED
  BY <1>1, <1>2

\* Requests in any order, refused ones among them, leave a session whose saved
\* requests tell what it has become.
LEMMA HandledFits ==
    ASSUME NEW k, NEW r, SavedFits(k), k.stat # "authorized", r # NoRequest
    PROVE  SavedFits(stratumHandleRequest(k, r))
<1> DEFINE h == stratumHandleRequest(k, r)
<1>1. CASE r.method = "mining.subscribe" /\ k.stat = "connected"
  BY <1>1, SubscribedFits DEF stratumHandleRequest
<1>2. CASE r.method = "mining.authorize" /\ k.stat = "subscribed"
  BY <1>2, AuthorizedFits DEF stratumHandleRequest
<1>3. CASE r.method = "eth_submitLogin"
  <2> DEFINE login == submitLogin(k)
  <2>1. SavedFits(login)
    BY LoginFits
  <2>2. h = IF login.stat = "subscribed" THEN parseAuthorizeRequest(login, r) ELSE login
    BY <1>3 DEF stratumHandleRequest
  <2> HIDE DEF login, h
  <2>3. SavedFits(h)
    BY <1>3, <2>1, <2>2, AuthorizedFits
  <2> QED
    BY <2>3 DEF h
<1>4. CASE r.method = "mining.configure" /\ k.protocolType = "BitcoinStratum"
  <2> DEFINE p == parseConfigureRequest(k, r)
  <2>1. /\ IsKnown(p) /\ SameKind(k, p) /\ p.stat = k.stat
        /\ p.subscribe = k.subscribe /\ p.protocolType = k.protocolType
        /\ p.jsonRPCVersion = k.jsonRPCVersion
    BY DEF SavedFits, IsKnown, SameKind, parseConfigureRequest
  <2>2. h = p
    BY <1>4 DEF stratumHandleRequest
  <2> HIDE DEF p
  <2>3. SavedFits(p)
    BY <2>1, KindCarries DEF SavedFits, SubscribeFits
  <2> QED
    BY <2>2, <2>3
<1>5. CASE /\ ~(r.method = "mining.subscribe" /\ k.stat = "connected")
           /\ ~(r.method = "mining.authorize" /\ k.stat = "subscribed")
           /\ r.method # "eth_submitLogin"
           /\ ~(r.method = "mining.configure" /\ k.protocolType = "BitcoinStratum")
  BY <1>5 DEF stratumHandleRequest
<1> QED
  BY <1>1, <1>2, <1>3, <1>4, <1>5

Restores(k) ==
    LET r == Resumed(k)
    IN /\ r.stat = "authorized"
       /\ r.subaccountName = k.subaccountName
       /\ r.isBTCAgent = k.isBTCAgent
       /\ r.versionMask = k.versionMask
       /\ SubscribeResponse(r) = SubscribeResponse(k)
       /\ k.protocolType # "EthereumProxy" =>
            r.protocolType = k.protocolType /\ r.jsonRPCVersion = k.jsonRPCVersion

\* Resume handles the saved requests in their order, and finds the kind of client
\* again, up to the name of the protocol of one that logged in without
\* subscribing: it expects the same response.
LEMMA SavedRestores ==
    ASSUME NEW k, SavedFits(k), k.stat = "authorized"
    PROVE  Restores(k)
<1>1. PICK new : new = NewSession(k.versionMask)
  OBVIOUS
<1>2. PICK sub : sub = parseSubscribeRequest(new, k.subscribe)
  OBVIOUS
<1>3. PICK res : res = parseAuthorizeRequest(sub, k.authorize)
  OBVIOUS
<1>4. /\ SavedFits(new) /\ new.stat = "connected" /\ new.versionMask = k.versionMask
      /\ NewKind(new)
  BY <1>1, NewFits DEF SavedFits
<1>5. /\ k.subscribe # NoRequest /\ k.authorize # NoRequest
      /\ k.subscribe.method = "mining.subscribe"
      /\ AuthorizeFits(k) /\ SubscribeFits(k)
  BY DEF SavedFits, IsKnown, SubscribeFits, makeSubscribeMessageForEthProxy
<1>6. stratumHandleRequest(new, k.subscribe) = sub
  BY <1>2, <1>4, <1>5 DEF stratumHandleRequest
<1>7. /\ SavedFits(sub) /\ sub.stat = "subscribed" /\ SubscribedKind(sub, k.subscribe)
      /\ sub.versionMask = k.versionMask /\ sub.jsonRPCVersion = 1
  BY <1>2, <1>4, <1>5, SubscribedFits, SubscribeKind DEF SavedFits
<1>8. sub.protocolType # "EthereumProxy"
  BY <1>7, ChainTypeAssumption DEF SubscribedKind, IsKind, getDefaultStratumProtocol
<1>9. stratumHandleRequest(sub, k.authorize) = res
  BY <1>3, <1>5, <1>7, <1>8 DEF stratumHandleRequest, submitLogin, AuthorizeFits
<1>10. Resumed(k) = res
  BY <1>1, <1>5, <1>6, <1>9 DEF Resumed
<1>11. /\ SameKind(sub, res) /\ res.stat = "authorized"
       /\ res.subaccountName = k.subaccountName /\ res.versionMask = k.versionMask
       /\ res.jsonRPCVersion = 1
  BY <1>3, <1>5, <1>7, AuthorizeKeeps DEF SavedFits, AuthorizeFits
<1>12. SubscribedKind(res, k.subscribe)
  BY <1>7, <1>11, KindCarries
<1>13. /\ SubscribeResponse(res) = SubscribeResponse(k) /\ res.isBTCAgent = k.isBTCAgent
       /\ k.protocolType # "EthereumProxy" => res.protocolType = k.protocolType
  <2>1. CASE SubscribedKind(k, k.subscribe)
    <3>1. SameKind(k, res)
      BY <1>12, <2>1 DEF SubscribedKind, IsKind, SameKind
    <3> QED
      BY <3>1 DEF SameKind, SubscribeResponse
  <2>2. CASE /\ ChainType = "ethereum"
             /\ k.subscribe = makeSubscribeMessageForEthProxy
             /\ LoginKind(k)
    <3>1. IsKind(res, "EthereumStratum", FALSE, FALSE)
      BY <1>12, <2>2 DEF SubscribedKind, IsKind, Agent, makeSubscribeMessageForEthProxy
    <3>2. res.isBTCAgent = k.isBTCAgent
      BY <2>2, <3>1 DEF LoginKind, IsKind
    <3>3. SubscribeResponse(res) = "true" /\ SubscribeResponse(k) = "true"
      BY <2>2, <3>1 DEF LoginKind, IsKind, SubscribeResponse
    <3>4. k.protocolType = "EthereumProxy"
      BY <2>2 DEF LoginKind, IsKind
    <3> QED
      BY <3>2, <3>3, <3>4
  <2> QED
    BY <1>5, <2>1, <2>2 DEF SubscribeFits
<1> QED
  BY <1>10, <1>11, <1>13 DEF Restores, SavedFits

-----------------------------------------------------------------------------
(* The fields of a session, the nodes and the service *)

Proxied == {"connecting", "authorizing", "running"}

\* A session that connects has found a coin with a server, and one that has
\* authorized has the name of a user.
FieldsFit(s, r) ==
    /\ SavedFits(r.k)
    /\ r.pc = "naming" => r.k.stat # "authorized"
    /\ r.k.stat = "authorized" => r.k.subaccountName \in Users
    /\ r.request # NoRequest => r.request \in ClientRequests[s]
    /\ r.coin \in Coins \cup {NoCoin}
    /\ r.pc \in Proxied => r.coin \in Servers

NodesFit ==
    /\ coinOf \in [Users -> Coins \cup {NoCoin}]
    /\ regNode \subseteq Users
    /\ regUser.pc \in {"posting", "posted", "done"} => regUser.user \in Users
    /\ failures \in 0 .. MaxFailures

Fields ==
    /\ \A s \in Sessions : FieldsFit(s, session[s])
    /\ \A g \in readers : g.authMsgCounter \in 0 .. 1
    /\ NodesFit

LEMMA FreshFields ==
    ASSUME NEW s \in Sessions, NEW pc \in {"naming", "stopped"}
    PROVE  FieldsFit(s, Fresh(pc))
<1> DEFINE k == NewSession(0)
<1>1. SavedFits(k) /\ k.stat = "connected"
  BY NewFits
<1> HIDE DEF k
<1>2. /\ Fresh(pc).k = k /\ Fresh(pc).pc = pc
      /\ Fresh(pc).request = NoRequest /\ Fresh(pc).coin = NoCoin
  BY DEF Fresh, k
<1> QED
  BY <1>1, <1>2 DEF FieldsFit, Proxied

LEMMA InitFields == Init => Fields
<1> SUFFICES ASSUME Init PROVE Fields
  OBVIOUS
<1>1. PICK start \in Starts :
        /\ session = [s \in Sessions |-> Fresh(IF s \in start.sessions THEN "naming" ELSE "stopped")]
        /\ coinOf = start.coins
  BY DEF Init
<1>2. \A s \in Sessions : FieldsFit(s, session[s])
  BY <1>1, FreshFields
<1>3. NodesFit
  BY <1>1, StartAssumption, SessionAssumption DEF Init, NodesFit, IdleService
<1>4. readers = {}
  BY DEF Init
<1> QED
  BY <1>2, <1>3, <1>4 DEF Fields

\* What may happen to a session that neither handles a request nor finds its
\* coin: it moves on, without going back to its requests or past the coin.
Moves(q, r) ==
    /\ r.k = q.k /\ r.request = q.request /\ r.coin = q.coin
    /\ r.pc = "naming" => q.pc = "naming"
    /\ r.pc \in Proxied => q.pc \in Proxied

LEMMA MovesFits ==
    ASSUME NEW s, NEW q, NEW r, FieldsFit(s, q), Moves(q, r)
    PROVE  FieldsFit(s, r)
BY DEF FieldsFit, Moves

LEMMA OneSession ==
    ASSUME Inv, Fields, NEW s \in Sessions, NEW r, Becomes(s, r), FieldsFit(s, r)
    PROVE  \A t \in Sessions : FieldsFit(t, session'[t])
BY DEF Inv, Types, Becomes, Fields

\* The steps of one session that move it on.
LEMMA StopMoves ==
    ASSUME NEW s \in Sessions, NEW record, IsSession(record), StopWith(s, record)
    PROVE  \E r : Becomes(s, r) /\ Moves(record, r)
<1> DEFINE r == [record EXCEPT !.pc = "stopped", !.held = FALSE]
<1>1. Becomes(s, r)
  BY DEF StopWith, Becomes
<1>2. /\ r.k = record.k /\ r.request = record.request /\ r.coin = record.coin
      /\ r.pc = "stopped"
  BY DEF IsSession
<1>3. Moves(record, r)
  BY <1>2 DEF Moves, Proxied
<1> QED
  BY <1>1, <1>3

LEMMA AttemptFailsMoves ==
    ASSUME NEW s \in Sessions, NEW record, IsSession(record), record.pc \in Proxied,
           AttemptFails(s, record)
    PROVE  \E r : Becomes(s, r) /\ Moves(record, r)
<1>1. CASE record.reconnects > 0 /\ record.attempts < MaxAttempts
  <2> DEFINE r == [record EXCEPT !.pc = "connecting", !.attempts = @ + 1]
  <2>1. Becomes(s, r)
    BY <1>1 DEF AttemptFails, Becomes
  <2>2. /\ r.k = record.k /\ r.request = record.request /\ r.coin = record.coin
        /\ r.pc = "connecting"
    BY DEF IsSession
  <2>3. Moves(record, r)
    BY <2>2 DEF Moves
  <2> QED
    BY <2>1, <2>3
<1>2. CASE ~(record.reconnects > 0 /\ record.attempts < MaxAttempts)
  BY <1>2, StopMoves DEF AttemptFails
<1> QED
  BY <1>1, <1>2

LEMMA GotoMoves ==
    ASSUME Inv, NEW s \in Sessions, NEW pc, Goto(s, pc), pc # "naming",
           pc \in Proxied => session[s].pc \in Proxied
    PROVE  \E r : Becomes(s, r) /\ Moves(session[s], r)
<1> DEFINE r == [session[s] EXCEPT !.pc = pc]
<1>1. Becomes(s, r)
  BY DEF Goto, Becomes
<1>2. /\ r.k = session[s].k /\ r.request = session[s].request /\ r.coin = session[s].coin
      /\ r.pc = pc
  BY SessionFits DEF IsSession
<1>3. Moves(session[s], r)
  BY <1>2 DEF Moves
<1> QED
  BY <1>1, <1>3

LEMMA MovingSteps ==
    ASSUME Inv, NEW s \in Sessions,
           \/ FindWorkerNameFails(s) \/ CheckRegistration(s) \/ CountRegistration(s)
           \/ CreateRegistration(s) \/ WatchRegistration(s)
           \/ (Dial(s) /\ ~Panic) \/ DialFails(s) \/ AuthorizeEnds(s) \/ AuthorizeTimeout(s)
           \/ TakeReader(s) \/ Reconnect(s)
    PROVE  \E r : Becomes(s, r) /\ Moves(session[s], r)
<1>0. IsSession(session[s]) /\ Consistent(session[s])
  BY SessionFits
<1>1. CASE FindWorkerNameFails(s)
  <2> DEFINE record == [session[s] EXCEPT !.late = session[s].request # NoRequest]
  <2>1. StopWith(s, record)
    BY <1>1 DEF FindWorkerNameFails
  <2>2. IsSession(record) /\ Moves(session[s], record)
    BY <1>0 DEF IsSession, Moves
  <2> HIDE DEF record
  <2> QED
    BY <2>1, <2>2, StopMoves DEF Moves
<1>2. CASE CheckRegistration(s)
  <2>1. PICK pc \in {"waiting", "stopped", "counting"} : Goto(s, pc)
    BY <1>2 DEF CheckRegistration
  <2> QED
    BY <2>1, GotoMoves DEF Proxied
<1>3. CASE CountRegistration(s)
  <2> DEFINE r == [session[s] EXCEPT !.pc = "creating", !.held = TRUE]
  <2>1. Becomes(s, r)
    BY <1>3 DEF CountRegistration, Becomes
  <2>2. Moves(session[s], r)
    BY <1>0 DEF IsSession, Moves, Proxied
  <2> QED
    BY <2>1, <2>2
<1>4. CASE CreateRegistration(s)
  BY <1>4, GotoMoves DEF CreateRegistration, Proxied
<1>5. CASE WatchRegistration(s)
  <2>1. Goto(s, "waiting") \/ StopWith(s, session[s])
    BY <1>5 DEF WatchRegistration, Stop
  <2> QED
    BY <1>0, <2>1, GotoMoves, StopMoves DEF Proxied
<1>6. CASE Dial(s) /\ ~Panic
  <2> DEFINE r == [session[s] EXCEPT !.pc = "authorizing", !.conn = AttemptOf(session[s]),
                                     !.reader = TRUE]
  <2>1. Becomes(s, r) /\ session[s].pc = "connecting"
    BY <1>6 DEF Dial, Becomes
  <2>2. Moves(session[s], r)
    BY <1>0, <2>1 DEF IsSession, Moves, Proxied
  <2> QED
    BY <2>1, <2>2
<1>7. CASE DialFails(s)
  BY <1>0, <1>7, AttemptFailsMoves DEF DialFails, Proxied
<1>8. CASE AuthorizeEnds(s)
  <2>1. PICK g \in readers :
          /\ g.session = s /\ g.result # "none"
          /\ Goto(s, "running") \/ AttemptFails(s, session[s])
    BY <1>8 DEF AuthorizeEnds
  <2>2. session[s].pc = "authorizing"
    BY <2>1 DEF Inv, ReaderFits
  <2> QED
    BY <1>0, <2>1, <2>2, GotoMoves, AttemptFailsMoves DEF Proxied
<1>9. CASE AuthorizeTimeout(s)
  <2> DEFINE record == [session[s] EXCEPT !.late = TRUE]
  <2>1. AttemptFails(s, record) /\ session[s].pc = "authorizing"
    BY <1>9 DEF AuthorizeTimeout
  <2>2. IsSession(record) /\ record.pc = session[s].pc /\ Moves(session[s], record)
    BY <1>0 DEF IsSession, Moves
  <2> HIDE DEF record
  <2>3. PICK r : Becomes(s, r) /\ Moves(record, r)
    BY <2>1, <2>2, AttemptFailsMoves DEF Proxied
  <2> QED
    BY <2>2, <2>3 DEF Moves
<1>10. CASE TakeReader(s)
  <2> DEFINE r == [session[s] EXCEPT !.reader = FALSE]
  <2>1. Becomes(s, r)
    BY <1>10 DEF TakeReader, Becomes
  <2>2. Moves(session[s], r)
    BY <1>0 DEF IsSession, Moves
  <2> QED
    BY <2>1, <2>2
<1>11. CASE Reconnect(s)
  <2> DEFINE r == [session[s] EXCEPT !.pc = "connecting", !.reader = FALSE, !.attempts = 1,
                                     !.reconnects = @ + 1]
  <2>1. Becomes(s, r) /\ session[s].pc = "running"
    BY <1>11 DEF Reconnect, Becomes
  <2>2. Moves(session[s], r)
    BY <1>0, <2>1 DEF IsSession, Moves, Proxied
  <2> QED
    BY <2>1, <2>2
<1> QED
  BY <1>1, <1>2, <1>3, <1>4, <1>5, <1>6, <1>7, <1>8, <1>9, <1>10, <1>11

\* The steps that change what a session knows or has found.
LEMMA ReadRequestFields ==
    ASSUME Inv, Fields, NEW s \in Sessions, ReadRequest(s)
    PROVE  \A t \in Sessions : FieldsFit(t, session'[t])
<1>1. PICK req \in ClientRequests[s] : session' = [session EXCEPT ![s].request = req]
  BY DEF ReadRequest
<1> DEFINE r == [session[s] EXCEPT !.request = req]
<1>2. Becomes(s, r)
  BY <1>1 DEF Becomes
<1>3. /\ r.k = session[s].k /\ r.request = req /\ r.coin = session[s].coin
      /\ r.pc = session[s].pc
  BY SessionFits DEF IsSession
<1> HIDE DEF r
<1>4. FieldsFit(s, r)
  BY <1>3 DEF Fields, FieldsFit
<1> QED
  BY <1>2, <1>4, OneSession

LEMMA HandleRequestLateFields ==
    ASSUME Inv, Fields, NEW s \in Sessions, HandleRequestLate(s), ~Panic
    PROVE  \A t \in Sessions : FieldsFit(t, session'[t])
<1> DEFINE r == [session[s] EXCEPT !.request = NoRequest]
<1>1. Becomes(s, r) /\ IsSession(session[s])
  BY SessionFits DEF HandleRequestLate, Becomes
<1>2. /\ r.k = session[s].k /\ r.request = NoRequest /\ r.coin = session[s].coin
      /\ r.pc = session[s].pc
  BY <1>1 DEF IsSession
<1> HIDE DEF r
<1>3. FieldsFit(s, r)
  BY <1>2 DEF Fields, FieldsFit
<1> QED
  BY <1>1, <1>3, OneSession

\* The name with which a session authorizes is that of a user.
LEMMA HandleRequestFields ==
    ASSUME Inv, Fields, NEW s \in Sessions, HandleRequest(s)
    PROVE  \A t \in Sessions : FieldsFit(t, session'[t])
<1> DEFINE k == stratumHandleRequest(session[s].k, session[s].request)
           r == [session[s] EXCEPT !.k = k, !.request = NoRequest,
                                   !.pc = IF k.stat = "authorized" THEN "finding" ELSE @]
<1>1. /\ Becomes(s, r)
      /\ session[s].pc = "naming" /\ session[s].request # NoRequest
      /\ session[s].request \in ClientRequests[s]
      /\ session[s].k.stat # "authorized"
      /\ SavedFits(session[s].k)
      /\ session[s].coin \in Coins \cup {NoCoin}
  BY DEF HandleRequest, Becomes, Fields, FieldsFit
<1>2. SavedFits(k)
  BY <1>1, HandledFits
<1>3. k.stat = "authorized" => k.authorize = session[s].request
  BY <1>1 DEF stratumHandleRequest, parseSubscribeRequest, parseAuthorizeRequest,
     parseConfigureRequest, submitLogin, SavedFits, IsKnown
<1>4. k.stat = "authorized" => k.subaccountName \in Users
  BY <1>1, <1>2, <1>3, RequestAssumption DEF SavedFits, AuthorizeFits
<1> HIDE DEF k
<1>5. /\ r.k = k /\ r.request = NoRequest /\ r.coin = session[s].coin
      /\ r.pc = IF k.stat = "authorized" THEN "finding" ELSE "naming"
  BY <1>1, SessionFits DEF IsSession
<1> HIDE DEF r
<1>6. FieldsFit(s, r)
  BY <1>1, <1>2, <1>4, <1>5 DEF FieldsFit, Proxied
<1> QED
  BY <1>1, <1>6, OneSession

LEMMA FindMiningCoinFields ==
    ASSUME Inv, Fields, NEW s \in Sessions, FindMiningCoin(s)
    PROVE  \A t \in Sessions : FieldsFit(t, session'[t])
<1>1. /\ session[s].pc \in {"finding", "woken"}
      /\ IsSession(session[s]) /\ Consistent(session[s])
      /\ FieldsFit(s, session[s]) /\ NodesFit
  BY SessionFits DEF FindMiningCoin, Fields
<1>2. User(s) \in Users
  BY <1>1 DEF Consistent, FieldsFit, User
<1>3. PICK failed \in {FALSE, failures < MaxFailures} :
        LET coin == IF failed THEN NoCoin ELSE coinOf[User(s)]
            next == IF coin = NoCoin /\ session[s].pc = "finding"
                    THEN [session[s] EXCEPT !.pc = "registering"]
                    ELSE Found(s, coin)
        IN session' = [session EXCEPT ![s] = [next EXCEPT !.held = FALSE]]
  BY DEF FindMiningCoin
<1> DEFINE coin == IF failed THEN NoCoin ELSE coinOf[User(s)]
           waits == [session[s] EXCEPT !.pc = "registering"]
           found == Found(s, coin)
           next == IF coin = NoCoin /\ session[s].pc = "finding" THEN waits ELSE found
           r == [next EXCEPT !.held = FALSE]
<1>4. Becomes(s, r) /\ coin \in Coins \cup {NoCoin}
  BY <1>1, <1>2, <1>3 DEF Becomes, NodesFit
<1> HIDE DEF coin
<1>5. /\ waits.k = session[s].k /\ waits.request = session[s].request
      /\ waits.coin = session[s].coin /\ waits.pc = "registering"
      /\ DOMAIN waits = DOMAIN session[s]
  BY <1>1 DEF IsSession
<1>6. /\ found.k = session[s].k /\ found.request = session[s].request
      /\ found.coin = coin /\ found.pc = IF coin \in Servers THEN "connecting" ELSE "stopped"
      /\ DOMAIN found = DOMAIN session[s]
  BY <1>1 DEF IsSession, Found
<1> HIDE DEF waits, found
<1>7. /\ next.k = session[s].k /\ next.request = session[s].request
      /\ next.coin \in Coins \cup {NoCoin} /\ next.pc # "naming"
      /\ next.pc \in Proxied => next.coin \in Servers
      /\ DOMAIN next = DOMAIN session[s]
  BY <1>1, <1>4, <1>5, <1>6 DEF FieldsFit, Proxied
<1> HIDE DEF next
<1>8. /\ r.k = next.k /\ r.request = next.request /\ r.coin = next.coin /\ r.pc = next.pc
  BY <1>1, <1>7 DEF IsSession
<1> HIDE DEF r
<1>9. FieldsFit(s, r)
  BY <1>1, <1>7, <1>8 DEF FieldsFit
<1> QED
  BY <1>4, <1>9, OneSession

LEMMA PanicFields ==
    ASSUME Fields, Panic
    PROVE  Fields'
<1>1. /\ session' = [s \in Sessions |-> Fresh("stopped")] /\ readers' = {}
      /\ UNCHANGED <<coinOf, regNode, regUser, failures>>
  BY DEF Panic, zkVars
<1>2. \A s \in Sessions : FieldsFit(s, session'[s])
  BY <1>1, FreshFields
<1>3. NodesFit'
  BY <1>1 DEF Fields, NodesFit
<1> QED
  BY <1>1, <1>2, <1>3 DEF Fields

\* The sessions after any step.
LEMMA SessionFields ==
    ASSUME Inv, Fields, [Next]_vars, ~Panic
    PROVE  \A t \in Sessions : FieldsFit(t, session'[t])
<1>1. CASE UNCHANGED session
  BY <1>1 DEF Fields
<1>2. ASSUME NEW s \in Sessions, \E r : Becomes(s, r) /\ Moves(session[s], r)
      PROVE  \A t \in Sessions : FieldsFit(t, session'[t])
  <2>1. PICK r : Becomes(s, r) /\ Moves(session[s], r)
    BY <1>2
  <2>2. FieldsFit(s, r)
    BY <2>1, MovesFits DEF Fields
  <2> QED
    BY <2>1, <2>2, OneSession
<1>3. ASSUME NEW s \in Sessions, ClientStep(s)
      PROVE  \A t \in Sessions : FieldsFit(t, session'[t])
  <2>1. CASE HandleRequestLate(s)
    BY <2>1, HandleRequestLateFields
  <2>2. CASE FindWorkerNameFails(s)
    BY <2>2, <1>2, MovingSteps
  <2>3. ~HandleNull(s)
    BY DEF HandleNull
  <2> QED
    BY <1>3, <2>1, <2>2, <2>3, ReadRequestFields, HandleRequestFields DEF ClientStep
<1>4. ASSUME NEW s \in Sessions, RegistrationStep(s)
      PROVE  \A t \in Sessions : FieldsFit(t, session'[t])
  <2>1. CASE FindMiningCoin(s)
    BY <2>1, FindMiningCoinFields
  <2>2. CASE ~FindMiningCoin(s)
    BY <1>4, <2>2, <1>2, MovingSteps DEF RegistrationStep
  <2> QED
    BY <2>1, <2>2
<1>5. ASSUME NEW s \in Sessions, ServerStep(s)
      PROVE  \A t \in Sessions : FieldsFit(t, session'[t])
  BY <1>5, <1>2, MovingSteps DEF ServerStep
<1>6. ASSUME NEW g \in readers, ReadResponse(g) \/ ReadMalformed(g) \/ ReadFails(g)
      PROVE  UNCHANGED session
  BY <1>6 DEF ReadResponse, ReadMalformed, ReadFails
<1>7. CASE ServiceDeletes
  <2>1. CASE session' = [s \in Sessions |->
                IF session[s].pc = "waiting" /\ User(s) = regUser.user
                THEN [session[s] EXCEPT !.pc = "woken"] ELSE session[s]]
    <3>1. ASSUME NEW s \in Sessions
          PROVE  FieldsFit(s, session'[s])
      <4> DEFINE r == [session[s] EXCEPT !.pc = "woken"]
      <4>1. session'[s] \in {session[s], r}
        BY <2>1
      <4>2. Moves(session[s], r)
        BY SessionFits DEF IsSession, Moves, Proxied
      <4> HIDE DEF r
      <4>3. FieldsFit(s, r)
        BY <4>2, MovesFits DEF Fields
      <4> QED
        BY <4>1, <4>3 DEF Fields
    <3> QED
      BY <3>1
  <2> QED
    BY <1>1, <1>7, <2>1 DEF ServiceDeletes
<1>8. CASE ServiceTakes \/ ServicePosts \/ ServiceSetsCoin \/ ServiceRestarts \/ UNCHANGED vars
  BY <1>1, <1>8 DEF ServiceTakes, ServicePosts, ServiceSetsCoin, ServiceRestarts, vars
<1> QED
  BY <1>1, <1>3, <1>4, <1>5, <1>6, <1>7, <1>8 DEF Next, ServiceStep

\* A goroutine counts the authorizations it reads, and ends at the second.
LEMMA ReaderFields ==
    ASSUME Inv, Fields, [Next]_vars, ~Panic
    PROVE  \A h \in readers' : h.authMsgCounter \in 0 .. 1
<1>1. CASE readers' \subseteq readers
  BY <1>1 DEF Fields
<1>2. ASSUME NEW g \in readers, NEW result, Ends(g, result)
      PROVE  \A h \in readers' : h.authMsgCounter \in 0 .. 1
  <2> DEFINE ended == [g EXCEPT !.result = result]
  <2>1. readers' \subseteq readers \cup {ended}
    BY <1>2 DEF Ends
  <2>2. ended.authMsgCounter = g.authMsgCounter
    BY DEF Inv, Types, IsReader
  <2> HIDE DEF ended
  <2> QED
    BY <2>1, <2>2 DEF Fields
<1>3. ASSUME NEW s \in Sessions, Dial(s)
      PROVE  \A h \in readers' : h.authMsgCounter \in 0 .. 1
  BY <1>3 DEF Dial, Fields
<1>4. ASSUME NEW g \in readers, ReadResponse(g)
      PROVE  \A h \in readers' : h.authMsgCounter \in 0 .. 1
  <2> DEFINE isAuth == Head(conns[g.session][g.on].todo) = "auth"
             counter == g.authMsgCounter + (IF isAuth THEN 1 ELSE 0)
             current == session[g.session].conn
             next == [g EXCEPT !.authMsgCounter = counter, !.on = current]
  <2>1. \/ \E result : Ends(g, result)
        \/ counter # 2 /\ readers' = (readers \ {g}) \cup {next}
    BY <1>4 DEF ReadResponse
  <2>2. next.authMsgCounter = counter
    BY DEF Inv, Types, IsReader
  <2>3. counter \in 0 .. 2
    BY DEF Fields
  <2> HIDE DEF counter, next
  <2> QED
    BY <1>2, <2>1, <2>2, <2>3 DEF Fields
<1>5. ASSUME NEW s \in Sessions, ClientStep(s) \/ RegistrationStep(s)
      PROVE  readers' = readers
  BY <1>5 DEF ClientStep, ReadRequest, HandleNull, HandleRequestLate, HandleRequest, FindWorkerNameFails,
     RegistrationStep, FindMiningCoin, CheckRegistration, CountRegistration,
     CreateRegistration, WatchRegistration
<1>6. ASSUME NEW s \in Sessions, ServerStep(s), ~Dial(s)
      PROVE  readers' \subseteq readers
  BY <1>6 DEF ServerStep, DialFails, AuthorizeEnds, AuthorizeTimeout, TakeReader, Reconnect
<1>7. CASE ServiceStep \/ ServiceRestarts \/ UNCHANGED vars
  BY <1>1, <1>7 DEF ServiceStep, ServiceTakes, ServicePosts, ServiceSetsCoin, ServiceDeletes,
     ServiceRestarts, vars
<1>8. ASSUME NEW g \in readers, ReadMalformed(g) \/ ReadFails(g)
      PROVE  \A h \in readers' : h.authMsgCounter \in 0 .. 1
  BY <1>2, <1>8 DEF ReadMalformed, ReadFails
<1> QED
  BY <1>1, <1>3, <1>4, <1>5, <1>6, <1>7, <1>8 DEF Next

\* A session creates the node of its user; the service takes a user from a node.
LEMMA NodesStep ==
    ASSUME Inv, Fields, [Next]_vars, ~Panic
    PROVE  NodesFit'
<1>0. NodesFit /\ MaxFailures \in Nat
  BY SessionAssumption DEF Fields
<1>1. CASE UNCHANGED <<zkVars, regUser, failures>>
  BY <1>0, <1>1 DEF NodesFit, zkVars
<1>2. CASE /\ UNCHANGED <<zkVars, regUser>>
           /\ \E failed \in {FALSE, failures < MaxFailures} :
                failures' = IF failed THEN failures + 1 ELSE failures
  <2>1. failures' = failures \/ (failures < MaxFailures /\ failures' = failures + 1)
    BY <1>2
  <2>2. failures' \in 0 .. MaxFailures
    BY <1>0, <2>1 DEF NodesFit
  <2> QED
    BY <1>0, <1>2, <2>2 DEF NodesFit, zkVars
<1>3. ASSUME NEW s \in Sessions, ClientStep(s)
      PROVE  NodesFit'
  BY <1>1, <1>3 DEF ClientStep, ReadRequest, HandleNull, HandleRequestLate, HandleRequest,
     FindWorkerNameFails, regVars
<1>4. ASSUME NEW s \in Sessions, RegistrationStep(s)
      PROVE  NodesFit'
  <2>1. CASE FindMiningCoin(s)
    BY <1>2, <2>1 DEF FindMiningCoin
  <2>2. CASE CheckRegistration(s) \/ WatchRegistration(s)
    BY <1>2, <2>2 DEF CheckRegistration, WatchRegistration, FindsNode
  <2>3. CASE CountRegistration(s)
    BY <1>1, <2>3 DEF CountRegistration
  <2>4. CASE CreateRegistration(s)
    <3>1. User(s) \in Users
      BY <2>4, SessionFits DEF CreateRegistration, Consistent, Fields, FieldsFit, User
    <3> QED
      BY <1>0, <2>4, <3>1 DEF CreateRegistration, NodesFit
  <2> QED
    BY <1>4, <2>1, <2>2, <2>3, <2>4 DEF RegistrationStep
<1>5. ASSUME NEW s \in Sessions, ServerStep(s)
      PROVE  NodesFit'
  BY <1>1, <1>5 DEF ServerStep, Dial, DialFails, AuthorizeEnds, AuthorizeTimeout, TakeReader,
     Reconnect, regVars
<1>6. ASSUME NEW g \in readers, ReadResponse(g) \/ ReadMalformed(g) \/ ReadFails(g)
      PROVE  NodesFit'
  BY <1>1, <1>6 DEF ReadResponse, ReadMalformed, ReadFails, regVars
<1>7. CASE ServiceTakes
  BY <1>0, <1>7 DEF ServiceTakes, NodesFit, zkVars
<1>8. CASE ServicePosts
  <2>1. /\ regUser.pc = "posting"
        /\ \E pc \in {"posted", "done"} : regUser' = [regUser EXCEPT !.pc = pc]
        /\ UNCHANGED <<coinOf, regNode, failures>>
    BY <1>8 DEF ServicePosts, zkVars
  <2>2. regUser'.user = regUser.user
    BY <2>1
  <2> QED
    BY <1>0, <2>1, <2>2 DEF NodesFit
<1>9. CASE ServiceSetsCoin
  <2>1. /\ regUser.pc = "posted" /\ regUser' = [regUser EXCEPT !.pc = "done"]
        /\ regNode' = regNode
    BY <1>9 DEF ServiceSetsCoin
  <2>2. regUser'.user = regUser.user /\ regUser.user \in Users
    BY <1>0, <2>1 DEF NodesFit
  <2>3. coinOf' \in [Users -> Coins \cup {NoCoin}]
    BY <1>0, <1>9, CoinAssumption DEF ServiceSetsCoin, NodesFit
  <2>4. failures' \in 0 .. MaxFailures
    BY <1>0, <1>9 DEF ServiceSetsCoin, NodesFit
  <2> QED
    BY <1>0, <2>1, <2>2, <2>3, <2>4 DEF NodesFit
<1>10. CASE ServiceDeletes
  BY <1>0, <1>10 DEF ServiceDeletes, IdleService, NodesFit
<1>11. CASE ServiceRestarts
  BY <1>0, <1>11 DEF ServiceRestarts, IdleService, NodesFit, zkVars
<1>12. CASE UNCHANGED vars
  BY <1>1, <1>12 DEF vars, regVars
<1> QED
  BY <1>3, <1>4, <1>5, <1>6, <1>7, <1>8, <1>9, <1>10, <1>11, <1>12 DEF Next, ServiceStep

LEMMA NextFields ==
    ASSUME Inv, Fields, [Next]_vars
    PROVE  Fields'
<1>1. CASE Panic
  BY <1>1, PanicFields
<1>2. CASE ~Panic
  BY <1>2, SessionFields, ReaderFields, NodesStep DEF Fields
<1> QED
  BY <1>1, <1>2

LEMMA FieldsInvariance == Spec => []Fields
<1>1. Init => Fields
  BY InitFields
<1>2. Inv /\ Fields /\ [Next]_vars => Fields'
  BY NextFields
<1> QED
  BY <1>1, <1>2, Invariance, PTL DEF Spec

\* The types of all that a session, its goroutines and the service keep: a
\* session in proxy mode or on the way there has a coin with a server, and only
\* one that waits for a registration is counted (findMiningCoin, tryAutoReg).
THEOREM Typed == Spec => []TypeOK
<1>1. Inv /\ Fields => TypeOK
  <2> SUFFICES ASSUME Inv, Fields PROVE TypeOK
    OBVIOUS
  <2>1. ASSUME NEW s \in Sessions
        PROVE  /\ session[s].pc \in Pcs
               /\ session[s].coin \in Coins \cup {NoCoin}
               /\ session[s].conn \in {0} \cup Attempts
               /\ session[s].pc \in {"authorizing", "running"} => session[s].coin \in Servers
               /\ session[s].held => session[s].pc \in {"creating", "watching", "waiting", "woken"}
    BY SessionFits DEF IsSession, Consistent, Fields, FieldsFit, Proxied
  <2>2. ASSUME NEW g \in readers
        PROVE  /\ g.on \in Attempts /\ g.authMsgCounter \in 0 .. 1
               /\ g.result \in {"none", "accepted", "failed"}
    BY DEF Inv, Types, IsReader, Fields
  <2> QED
    BY <2>1, <2>2 DEF TypeOK, Pcs, Fields, NodesFit
<1> QED
  BY <1>1, Invariance, FieldsInvariance, PTL

\* Whatever requests a client has sent, in whatever order, the two that were
\* saved make of a new session one of the same kind and name, and, unless its
\* mining.subscribe was made up, of the same protocol and version (Resume).
THEOREM ResumesAsBefore == Spec => []ResumeRestores
<1>1. Fields => ResumeRestores
  BY SavedRestores DEF Fields, FieldsFit, ResumeRestores, Restores
<1> QED
  BY <1>1, FieldsInvariance, PTL

=============================================================================
