---------------------------- MODULE HostedProofs ----------------------------
(***************************************************************************)
(* The safety of the HTTP store and its token source for any number of     *)
(* concurrent calls, spaces, attempts, pages and faults.  That every call  *)
(* returns is left to TLC.                                                 *)
(***************************************************************************)
EXTENDS Hosted, FiniteSetTheorems, TLAPS

\* The calls that queue for a token, and those that still wait for an answer.
Queueing == {"waiting", "minting"}
Open(r) == r.pc \notin {"idle", "done"}

\* A token that is held, in a request or in a write that may still land.
OneOf(t) == t.n <= issued /\ (kind = "login" /\ t # NoToken =>
                /\ got # NoToken
                /\ started # None => t.id = started)

\* The token source: the space it is bound to is that of the first mint, and the
\* held token is the last one accepted until that one is refused.
SourceInv ==
    /\ kind = "fixed" => started = None /\ source.token = Tok(1, First)
    /\ kind = "login" =>
          /\ got = NoToken =>
                started = None /\ source.spaceID = None /\ ~source.replaced /\ landed = {}
          /\ started # None => source.spaceID = started /\ landed \subseteq {started}
          /\ source.token \in {NoToken, got}
          /\ source.token = NoToken => got = NoToken \/ got \in refused
    /\ OneOf(source.token)
    /\ exists # Ids => reach # First

\* A caller's access is really gone, or its token was refused as often as it may be.
Denied(r) ==
    \/ ~keyOK \/ readOnly \/ source.replaced \/ reach # First
    \/ r.refusals = 2
    \/ kind = "fixed" /\ r.refusals = 1

\* One request: its token and its refusals, and why it may end without an object or
\* without access.
RequestInv(r) ==
    /\ OneOf(r.tok)
    /\ Open(r) => r.refusals = IF r.replay THEN 1 ELSE 0
    /\ r.pc = "server" => ~r.replay
    /\ r.pc \in Queueing => kind = "login"
    /\ r.pc \in {"sent", "refused"} => r.tok # NoToken
    /\ r.pc = "refused" => r.tok \in refused
    /\ (r.pc \in Queueing \cup {"token"} /\ r.replay /\ kind = "login") =>
          r.tok # NoToken /\ source.token # r.tok
    /\ (r.pc = "done" /\ r.result = "absent") =>
          r.op = "read" /\ r.hit \in landed /\ r.ans = "no_object"
    /\ (r.pc = "done" /\ r.result = "denied") => Denied(r)

\* One conditional write: how often it was applied, and what its caller was told.
WriteInv(r) ==
    r.op = "replace" =>
       /\ Open(r) => r.applied = 0
       /\ r.applied <= 1
       /\ r.pc = "done" /\ r.result = "precondition" => r.applied = 0
       /\ r.pc = "done" /\ r.result = "ok" => r.applied = 1

\* A write that may still land is one of a call that ended without an answer, or has
\* returned; no two calls share a number.
LateInv ==
    /\ \A r \in late : r.op = "replace" /\ r.id < calls /\ OneOf(r.tok)
    /\ \A r, s \in late : r.id = s.id => r = s
    /\ \A c \in Callers : ~At(c, "idle") => call[c].id < calls
    /\ \A c, d \in Callers : ~At(c, "idle") /\ ~At(d, "idle") /\ call[c].id = call[d].id => c = d
    /\ \A r \in late, c \in Callers :
          ~At(c, "idle") /\ call[c].id = r.id =>
             call[c].pc = "done" /\ call[c].result = "transport" /\ call[c].applied = 0

HostedInv ==
    /\ TypeOK /\ SourceInv /\ LateInv
    /\ \A c \in Callers : ~At(c, "idle") => RequestInv(call[c]) /\ WriteInv(call[c])

-----------------------------------------------------------------------------
(* What the store makes of an answer, as facts about one call.             *)
\* A call that is not idle is a record with every field.
LEMMA BusyCalls ==
    ASSUME TypeOK, NEW c \in Callers, ~At(c, "idle")
    PROVE  call[c] \in CallRecords
  BY DEF TypeOK, At, IdleCall

\* Request starts the next request of a call from nothing.
LEMMA RequestFacts ==
    ASSUME HostedAssumption, NEW r \in CallRecords, NEW n \in Nat
    PROVE  /\ Request(r, n) \in CallRecords
           /\ Request(r, n).pc = "token" /\ ~Request(r, n).replay /\ Request(r, n).refusals = 0
           /\ Request(r, n).tok = NoToken
           /\ Request(r, n).op = r.op /\ Request(r, n).id = r.id /\ Request(r, n).applied = r.applied
  BY DEF Request, CallRecords, HostedAssumption, NoToken, Tokens, Pcs, Answers

\* Finish ends a call with a result, and leaves the rest of it alone.
LEMMA FinishFacts ==
    ASSUME NEW r \in CallRecords, NEW result \in Results
    PROVE  /\ Finish(r, result) \in CallRecords
           /\ Finish(r, result).pc = "done" /\ Finish(r, result).result = result
           /\ Finish(r, result).op = r.op /\ Finish(r, result).id = r.id
           /\ Finish(r, result).applied = r.applied /\ Finish(r, result).tok = r.tok
           /\ Finish(r, result).hit = r.hit /\ Finish(r, result).ans = r.ans
           /\ Finish(r, result).refusals = r.refusals
  BY DEF Finish, CallRecords, Pcs

\* Accept goes on with a listing or a delete, and ends any other call.
LEMMA AcceptFacts ==
    ASSUME HostedAssumption, NEW r \in CallRecords
    PROVE  /\ Accept(r) \in CallRecords
           /\ Accept(r).op = r.op /\ Accept(r).id = r.id /\ Accept(r).applied = r.applied
           /\ \/ /\ Accept(r).pc = "token" /\ ~Accept(r).replay /\ Accept(r).refusals = 0
                 /\ Accept(r).tok = NoToken /\ r.op \in Cleanup
              \/ /\ Accept(r).pc = "done" /\ Accept(r).result \in {"ok", "transport"}
                 /\ Accept(r).tok = r.tok
                 /\ r.op = "replace" => Accept(r).result = "ok"
  <1>1. CASE r.op = "list" /\ r.cursor # None /\ ~Repeated(r)
    <2>1. Accept(r) = [Request(r, 1) EXCEPT !.seen = @ \cup {r.cursor}]
      BY <1>1 DEF Accept
    <2> QED BY <1>1, <2>1, RequestFacts DEF CallRecords, Cleanup
  <1>2. CASE r.op = "delete" /\ r.left > 1
    <2>1. Accept(r) = [Request(r, 1) EXCEPT !.left = @ - 1]
      BY <1>2 DEF Accept
    <2>2. Request(r, 1).left \in Nat /\ Request(r, 1).left > 1
      BY <1>2 DEF Request, CallRecords
    <2> QED BY <1>2, <2>1, <2>2, RequestFacts DEF CallRecords, Cleanup
  <1>3. CASE r.op = "list" /\ r.cursor # None /\ Repeated(r)
    <2>1. Accept(r) = Finish(r, "transport")
      BY <1>3 DEF Accept
    <2>2. "transport" \in Results
      BY DEF Results
    <2> QED BY <1>3, <2>1, <2>2, FinishFacts
  <1>4. CASE ~(r.op = "list" /\ r.cursor # None) /\ ~(r.op = "delete" /\ r.left > 1)
    <2>1. Accept(r) = Finish(r, "ok")
      BY <1>4 DEF Accept
    <2>2. "ok" \in Results
      BY DEF Results
    <2> QED BY <1>4, <2>1, <2>2, FinishFacts
  <1> QED BY <1>1, <1>2, <1>3, <1>4

\* StatusError: what each answer is reported as.
LEMMA StatusFacts ==
    ASSUME NEW op, NEW ans \in Answers \ {"none", "401", "ok", "page"}
    PROVE  /\ StatusError(op, ans) \in {"full", "limited", "denied", "absent", "precondition", "transport"}
           /\ StatusError(op, ans) = "absent" => op = "read" /\ ans = "no_object"
           /\ StatusError(op, ans) = "denied" =>
                 ans = "403" \/ ans = "no_space" \/ (ans = "no_object" /\ op # "read")
           /\ StatusError(op, ans) = "precondition" <=> ans = "412"
           /\ ans \in {"5xx", "lost"} => StatusError(op, ans) = "transport"
  <1> USE DEF StatusError
  <1>1. CASE ans = "507" BY <1>1
  <1>2. CASE ans = "429" BY <1>2
  <1>3. CASE ans = "403" BY <1>3
  <1>4. CASE ans = "no_object" BY <1>4
  <1>5. CASE ans = "no_space" BY <1>5
  <1>6. CASE ans = "412" BY <1>6
  <1>7. CASE ans = "5xx" BY <1>7
  <1>8. CASE ans = "lost" BY <1>8
  <1> HIDE DEF StatusError
  <1> QED BY <1>1, <1>2, <1>3, <1>4, <1>5, <1>6, <1>7, <1>8 DEF Answers

\* Answered: what an answer makes of a call.
LEMMA AnsweredFacts ==
    ASSUME HostedAssumption, NEW r \in CallRecords, r.ans # "none"
    PROVE  /\ Answered(r) \in CallRecords
           /\ Answered(r).op = r.op /\ Answered(r).id = r.id /\ Answered(r).applied = r.applied
           /\ \/ /\ Answered(r).pc = "refused" /\ r.ans = "401" /\ Answered(r).tok = r.tok
                 /\ Answered(r).replay = r.replay /\ Answered(r).refusals = r.refusals
              \/ /\ Answered(r).pc = "token" /\ ~Answered(r).replay /\ Answered(r).refusals = 0
                 /\ Answered(r).tok = NoToken /\ r.op \in Idempotent
              \/ /\ Answered(r).pc = "done" /\ r.ans \in {"ok", "page"} /\ Answered(r).tok = r.tok
                 /\ Answered(r).result \in {"ok", "transport"}
                 /\ r.op = "replace" => Answered(r).result = "ok"
              \/ /\ Answered(r).pc = "done" /\ Answered(r).tok = r.tok
                 /\ Answered(r).hit = r.hit /\ Answered(r).ans = r.ans
                 /\ r.ans \notin {"401", "ok", "page"}
                 /\ Answered(r).result = StatusError(r.op, r.ans)
  <1>1. CASE r.ans = "401"
    <2>1. Answered(r) = [r EXCEPT !.pc = "refused"]
      BY <1>1 DEF Answered, Retries
    <2> QED BY <1>1, <2>1 DEF CallRecords, Pcs
  <1>2. CASE r.ans \in {"ok", "page"}
    <2>1. Answered(r) = Accept(r)
      BY <1>2 DEF Answered, Retries
    <2> QED BY <1>2, <2>1, AcceptFacts DEF Cleanup, Idempotent
  <1>3. CASE r.ans \notin {"401", "ok", "page"} /\ Retries(r)
    <2>1. Answered(r) = Request(r, r.n + 1)
      BY <1>3 DEF Answered
    <2>2. r.n + 1 \in Nat
      BY DEF CallRecords
    <2>3. r.op \in Idempotent
      BY <1>3 DEF Retries
    <2> DEFINE q == Request(r, r.n + 1)
    <2>4. /\ q \in CallRecords /\ q.pc = "token" /\ ~q.replay /\ q.refusals = 0
          /\ q.tok = NoToken /\ q.op = r.op /\ q.id = r.id /\ q.applied = r.applied
      BY <2>2, RequestFacts
    <2> HIDE DEF q
    <2>5. Answered(r) = q
      BY <2>1 DEF q
    <2> QED BY <2>3, <2>4, <2>5
  <1>4. CASE r.ans \notin {"401", "ok", "page"} /\ ~Retries(r)
    <2>1. Answered(r) = Finish(r, StatusError(r.op, r.ans))
      BY <1>4 DEF Answered
    <2>2. StatusError(r.op, r.ans) \in Results
      <3>1. r.ans \in Answers \ {"none", "401", "ok", "page"}
        BY <1>4 DEF CallRecords
      <3> QED BY <3>1, StatusFacts DEF Results
    <2> QED BY <1>4, <2>1, <2>2, FinishFacts
  <1> QED BY <1>1, <1>2, <1>3, <1>4

-----------------------------------------------------------------------------
(* A step of one call.                                                     *)

\* The call of c goes on, every other call stays as it is.
Moves(c) ==
    /\ call' \in [Callers -> CallRecords \cup {IdleCall}]
    /\ call'[c] \in CallRecords
    /\ call'[c].op = call[c].op /\ call'[c].id = call[c].id
    /\ \A d \in Callers \ {c} : call'[d] = call[d]

\* What no step takes back: a lost key, a refusal, and a token's place in the source.
Kept ==
    /\ kind' = kind /\ readOnly' = readOnly
    /\ ~keyOK => ~keyOK'
    /\ source.replaced => source'.replaced
    /\ reach # First => reach' # First
    /\ refused \subseteq refused' /\ landed \subseteq landed'
    /\ \A t \in Tokens : OneOf(t) => OneOf(t)'
    /\ \A t \in Tokens : t # NoToken /\ t.n <= issued /\ source.token # t => source'.token # t

\* Put replaces the record of one call.
LEMMA PutFacts ==
    ASSUME TypeOK, NEW c \in Callers, NEW r \in CallRecords, Put(c, r),
           r.op = call[c].op, r.id = call[c].id
    PROVE  Moves(c) /\ call'[c] = r
  BY DEF TypeOK, Put, Moves

\* SendWith: the request goes with the token, unless that one was just refused.
LEMMA SendWithFacts ==
    ASSUME TypeOK, NEW c \in Callers, ~At(c, "idle"), NEW t \in Tokens, SendWith(c, t)
    PROVE  /\ Moves(c)
           /\ call'[c].applied = call[c].applied /\ call'[c].replay = call[c].replay
           /\ call'[c].refusals = call[c].refusals
           /\ \/ /\ call'[c].pc = "done" /\ call'[c].result = "denied" /\ call[c].replay
                 /\ t = call[c].tok /\ call'[c].tok = call[c].tok
              \/ call'[c].pc = "sent" /\ call'[c].tok = t
  <1>1. call[c] \in CallRecords
    BY BusyCalls
  <1>2. CASE call[c].replay /\ t = call[c].tok
    <2> DEFINE r == [call[c] EXCEPT !.pc = "done", !.result = "denied"]
    <2>1. /\ r \in CallRecords /\ r.op = call[c].op /\ r.id = call[c].id /\ r.tok = call[c].tok
          /\ r.applied = call[c].applied /\ r.replay = call[c].replay /\ r.refusals = call[c].refusals
          /\ r.pc = "done" /\ r.result = "denied"
      BY <1>1 DEF CallRecords, Pcs, Results
    <2>2. Put(c, r)
      BY <1>2 DEF SendWith
    <2> HIDE DEF r
    <2>3. Moves(c) /\ call'[c] = r
      BY <2>1, <2>2, PutFacts
    <2> QED BY <1>2, <2>1, <2>3
  <1>3. CASE ~(call[c].replay /\ t = call[c].tok)
    <2> DEFINE r == [call[c] EXCEPT !.pc = "sent", !.tok = t, !.ans = "none"]
    <2>1. /\ r \in CallRecords /\ r.op = call[c].op /\ r.id = call[c].id /\ r.tok = t
          /\ r.applied = call[c].applied /\ r.replay = call[c].replay /\ r.refusals = call[c].refusals
          /\ r.pc = "sent"
      BY <1>1 DEF CallRecords, Pcs, Answers
    <2>2. Put(c, r)
      BY <1>3 DEF SendWith
    <2> HIDE DEF r
    <2>3. Moves(c) /\ call'[c] = r
      BY <2>1, <2>2, PutFacts
    <2> QED BY <2>1, <2>3
  <1> QED BY <1>2, <1>3

\* Done: the call ends with the result.
LEMMA DoneFacts ==
    ASSUME TypeOK, NEW c \in Callers, ~At(c, "idle"), NEW result \in Results, Done(c, result)
    PROVE  /\ Moves(c)
           /\ call'[c].pc = "done" /\ call'[c].result = result /\ call'[c].tok = call[c].tok
           /\ call'[c].applied = call[c].applied /\ call'[c].refusals = call[c].refusals
  <1> DEFINE r == [call[c] EXCEPT !.pc = "done", !.result = result]
  <1>1. call[c] \in CallRecords
    BY BusyCalls
  <1>2. /\ r \in CallRecords /\ r.op = call[c].op /\ r.id = call[c].id /\ r.tok = call[c].tok
        /\ r.applied = call[c].applied /\ r.refusals = call[c].refusals
        /\ r.pc = "done" /\ r.result = result
    BY <1>1 DEF CallRecords, Pcs
  <1>3. Put(c, r)
    BY DEF Done
  <1> HIDE DEF r
  <1>4. Moves(c) /\ call'[c] = r
    BY <1>2, <1>3, PutFacts
  <1> QED BY <1>2, <1>4

\* TokenFailed: the call ends with the token's error, or its request is tried again.
LEMMA TokenFailedFacts ==
    ASSUME TypeOK, NEW c \in Callers, ~At(c, "idle"), NEW result \in Results, TokenFailed(c, result)
    PROVE  /\ Moves(c)
           /\ call'[c].applied = call[c].applied /\ call'[c].tok = call[c].tok
           /\ \/ call'[c].pc = "token" /\ ~call'[c].replay /\ call'[c].refusals = 0
              \/ call'[c].pc = "done" /\ call'[c].result = result
  <1>1. call[c] \in CallRecords
    BY BusyCalls
  <1> DEFINE again == call[c].replay /\ call[c].op \in Idempotent /\ call[c].n < Attempts
  <1>2. CASE again
    <2> DEFINE r == [call[c] EXCEPT !.pc = "token", !.replay = FALSE, !.n = @ + 1, !.refusals = 0]
    <2>1. /\ r \in CallRecords /\ r.op = call[c].op /\ r.id = call[c].id /\ r.tok = call[c].tok
          /\ r.applied = call[c].applied /\ ~r.replay /\ r.refusals = 0 /\ r.pc = "token"
      <3>1. call[c].n + 1 \in Nat
        BY <1>1 DEF CallRecords
      <3> QED BY <1>1, <3>1 DEF CallRecords, Pcs
    <2>2. Put(c, r)
      BY <1>2 DEF TokenFailed
    <2> HIDE DEF r
    <2>3. Moves(c) /\ call'[c] = r
      BY <2>1, <2>2, PutFacts
    <2> QED BY <2>1, <2>3
  <1>3. CASE ~again
    <2>1. Done(c, result)
      BY <1>3 DEF TokenFailed
    <2> QED BY <2>1, DoneFacts
  <1> QED BY <1>2, <1>3

\* A call that does not move keeps what is known of it.
LEMMA OtherCall ==
    ASSUME HostedInv, Kept, NEW d \in Callers, call'[d] = call[d], ~At(d, "idle")'
    PROVE  RequestInv(call[d])' /\ WriteInv(call[d])'
  <1> USE DEF HostedInv
  <1>1. ~At(d, "idle")
    BY DEF At
  <1>2. RequestInv(call[d]) /\ WriteInv(call[d]) /\ call[d].tok \in Tokens
    BY <1>1, BusyCalls DEF CallRecords
  <1>3. WriteInv(call[d])'
    BY <1>2 DEF WriteInv, Open
  <1>4. OneOf(call[d].tok)'
    BY <1>2 DEF Kept, RequestInv
  <1>5. Denied(call[d]) => Denied(call[d])'
    BY DEF Denied, Kept
  <1>6. RequestInv(call[d])'
    BY <1>2, <1>4, <1>5 DEF RequestInv, Kept, Open, OneOf
  <1> QED BY <1>3, <1>6

\* A step of one call keeps what is known of all of them, if it keeps what is known
\* of that one.
LEMMA OneCall ==
    ASSUME HostedInv, TypeOK', Kept, NEW c \in Callers, Moves(c),
           ~At(c, "idle"), ~At(c, "done"), late' = late, calls' = calls,
           RequestInv(call[c])', WriteInv(call[c])'
    PROVE  /\ LateInv'
           /\ \A d \in Callers : ~At(d, "idle")' => RequestInv(call[d])' /\ WriteInv(call[d])'
  <1> USE DEF HostedInv
  <1>1. \A d \in Callers \ {c} : call'[d] = call[d]
    BY DEF Moves
  <1>2. call'[c].id = call[c].id /\ call'[c].pc # "idle"
    BY DEF Moves, CallRecords, Pcs
  <1>4. \A r \in late : r.tok \in Tokens
    BY DEF TypeOK, CallRecords
  <1>5. LateInv'
    <2>1. \A r \in late : (r.op = "replace" /\ r.id < calls /\ OneOf(r.tok))'
      BY <1>4 DEF LateInv, Kept
    <2>2. \A d \in Callers : ~At(d, "idle")' => (call[d].id < calls)'
      BY <1>1, <1>2 DEF LateInv, At
    <2>3. \A d, e \in Callers : (~At(d, "idle") /\ ~At(e, "idle") /\ call[d].id = call[e].id)' => d = e
      BY <1>1, <1>2 DEF LateInv, At
    <2>4. \A r \in late, d \in Callers :
             (~At(d, "idle") /\ call[d].id = r.id)' =>
                (call[d].pc = "done" /\ call[d].result = "transport" /\ call[d].applied = 0)'
      BY <1>1, <1>2 DEF LateInv, At
    <2> QED BY <2>1, <2>2, <2>3, <2>4 DEF LateInv
  <1>6. \A d \in Callers \ {c} : ~At(d, "idle")' => RequestInv(call[d])' /\ WriteInv(call[d])'
    BY <1>1, OtherCall
  <1> QED BY <1>5, <1>6

-----------------------------------------------------------------------------
(* The steps of a call that leave the source and the gateway alone.        *)
Quiet == UNCHANGED <<remote, obj, live, source, issued, etag, late, calls, ghosts>>

\* A step that leaves the source and the gateway alone keeps both.
LEMMA QuietKept ==
    ASSUME TypeOK, SourceInv, Quiet
    PROVE  Kept /\ SourceInv'
  BY DEF Quiet, Kept, SourceInv, OneOf, remote, ghosts

\* The type of everything but the calls and the minting channel.
LEMMA QuietType ==
    ASSUME TypeOK, Quiet, call' \in [Callers -> CallRecords \cup {IdleCall}],
           minting' \in Callers \cup {Nobody}, faults' \in 0 .. MaxFaults,
           \A d \in Callers : call'[d].pc = "minting" <=> minting' = d
    PROVE  TypeOK'
  BY DEF Quiet, TypeOK, At, remote, ghosts

\* A fault counts.
LEMMA FaultType ==
    ASSUME HostedAssumption, TypeOK, Fault
    PROVE  faults' \in 0 .. MaxFaults
  BY DEF HostedAssumption, TypeOK, Fault

\* The channel is with the caller that mints, also after a step of another one.
LEMMA MintingKept ==
    ASSUME HostedAssumption, TypeOK, NEW c \in Callers, Moves(c),
           \/ minting' = minting /\ ~At(c, "minting") /\ call'[c].pc # "minting"
           \/ minting' = Nobody /\ At(c, "minting") /\ call'[c].pc # "minting"
           \/ minting = Nobody /\ minting' = c /\ call'[c].pc = "minting"
    PROVE  /\ minting' \in Callers \cup {Nobody}
           /\ \A d \in Callers : call'[d].pc = "minting" <=> minting' = d
  BY DEF HostedAssumption, TypeOK, Moves, At

\* The server check of the first request keeps the invariant.
LEMMA CheckServerStep ==
    ASSUME HostedAssumption, HostedInv, NEW c \in Callers, CheckServer(c)
    PROVE  HostedInv'
  <1> USE DEF HostedInv
  <1>1. ~At(c, "idle") /\ ~At(c, "done") /\ ~At(c, "minting") /\ call[c] \in CallRecords
    BY BusyCalls DEF CheckServer, At
  <1>2. Quiet /\ minting' = minting
    BY DEF CheckServer, Quiet
  <1>3. /\ Moves(c) /\ faults' \in 0 .. MaxFaults
        /\ call'[c].tok = call[c].tok /\ call'[c].applied = call[c].applied
        /\ call'[c].refusals = call[c].refusals
        /\ \/ call'[c].pc \in {"token", "server"} /\ call'[c].replay = call[c].replay
           \/ call'[c].pc = "done" /\ call'[c].result \in {"transport", "incompatible"}
    <2>1. CASE Put(c, [call[c] EXCEPT !.pc = "token", !.n = 1]) /\ UNCHANGED faults
      <3> DEFINE r == [call[c] EXCEPT !.pc = "token", !.n = 1]
      <3>1. /\ r \in CallRecords /\ r.op = call[c].op /\ r.id = call[c].id /\ r.tok = call[c].tok
            /\ r.applied = call[c].applied /\ r.refusals = call[c].refusals /\ r.pc = "token"
            /\ r.replay = call[c].replay
        BY <1>1 DEF CallRecords, Pcs
      <3> HIDE DEF r
      <3>2. Moves(c) /\ call'[c] = r
        BY <2>1, <3>1, PutFacts DEF r
      <3> QED BY <2>1, <3>1, <3>2 DEF TypeOK
    <2>2. CASE Fault /\ Put(c, [call[c] EXCEPT !.n = @ + 1])
      <3> DEFINE r == [call[c] EXCEPT !.n = @ + 1]
      <3>1. call[c].n + 1 \in Nat /\ call[c].pc = "server"
        BY <1>1 DEF CallRecords, CheckServer, At
      <3>2. /\ r \in CallRecords /\ r.op = call[c].op /\ r.id = call[c].id /\ r.tok = call[c].tok
            /\ r.applied = call[c].applied /\ r.refusals = call[c].refusals /\ r.pc = "server"
            /\ r.replay = call[c].replay
        BY <1>1, <3>1 DEF CallRecords
      <3> HIDE DEF r
      <3>3. Moves(c) /\ call'[c] = r
        BY <2>2, <3>2, PutFacts DEF r
      <3> QED BY <2>2, <3>2, <3>3, FaultType
    <2>3. CASE Fault /\ (Done(c, "transport") \/ Done(c, "incompatible"))
      <3>1. {"transport", "incompatible"} \subseteq Results
        BY DEF Results
      <3> QED BY <2>3, <3>1, <1>1, FaultType, DoneFacts
    <2> QED BY <2>1, <2>2, <2>3 DEF CheckServer
  <1>4. TypeOK'
    <2>1. /\ minting' \in Callers \cup {Nobody}
          /\ \A d \in Callers : call'[d].pc = "minting" <=> minting' = d
      <3>1. call'[c].pc # "minting"
        BY <1>3
      <3> QED BY <1>1, <1>2, <1>3, <3>1, MintingKept
    <2> QED BY <1>2, <1>3, <2>1, QuietType DEF Moves
  <1>5. Kept /\ SourceInv'
    BY <1>2, QuietKept
  <1>6. RequestInv(call[c])' /\ WriteInv(call[c])'
    <2>1. RequestInv(call[c]) /\ WriteInv(call[c]) /\ call[c].pc = "server"
      BY <1>1 DEF CheckServer, At
    <2>2. OneOf(call[c].tok)'
      BY <1>1, <1>3, <1>5, <2>1 DEF Kept, RequestInv, CallRecords
    <2>3. WriteInv(call[c])'
      BY <1>3, <2>1 DEF WriteInv, Open, Moves
    <2>4. RequestInv(call[c])'
      BY <1>3, <2>1, <2>2 DEF RequestInv, Open, Queueing
    <2> QED BY <2>3, <2>4
  <1>7. late' = late /\ calls' = calls
    BY <1>2 DEF Quiet
  <1> QED BY <1>1, <1>3, <1>4, <1>5, <1>6, <1>7, OneCall

\* The caller of Token is denied only when it may be, or goes on with the held token.
LEMMA SendHeld ==
    ASSUME HostedAssumption, HostedInv, NEW c \in Callers, At(c, "token") \/ At(c, "waiting"),
           kind = "fixed" \/ Current # NoToken,
           SendWith(c, source.token), Quiet
    PROVE  /\ Moves(c) /\ call'[c].pc # "minting"
           /\ RequestInv(call[c])' /\ WriteInv(call[c])'
  <1> USE DEF HostedInv
  <1>1. ~At(c, "idle") /\ RequestInv(call[c]) /\ WriteInv(call[c]) /\ call[c] \in CallRecords
    BY BusyCalls DEF At
  <1>2. source.token \in Tokens /\ source.token # NoToken
    BY DEF TypeOK, Tokens, Current, SourceInv, Tok, NoToken
  <1>3. /\ Moves(c)
        /\ call'[c].applied = call[c].applied /\ call'[c].replay = call[c].replay
        /\ call'[c].refusals = call[c].refusals
        /\ \/ /\ call'[c].pc = "done" /\ call'[c].result = "denied" /\ call[c].replay
              /\ source.token = call[c].tok /\ call'[c].tok = call[c].tok
           \/ call'[c].pc = "sent" /\ call'[c].tok = source.token
    BY <1>1, <1>2, SendWithFacts
  <1>4. OneOf(source.token) /\ UNCHANGED <<remote, source, issued, ghosts>>
    BY DEF SourceInv, Quiet
  <1>5. WriteInv(call[c])'
    BY <1>1, <1>3 DEF WriteInv, Open, Moves, At
  <1>6. RequestInv(call[c])'
    BY <1>1, <1>2, <1>3, <1>4 DEF RequestInv, OneOf, Open, Queueing, Denied, At, remote, ghosts, TypeOK
  <1> QED BY <1>3, <1>5, <1>6

\* A token error that is no denial, or one that is real.
LEMMA FailedFor ==
    ASSUME HostedAssumption, HostedInv, NEW c \in Callers, ~At(c, "idle"), ~At(c, "done"), Kept,
           NEW result \in {"denied", "transport", "limited", "incompatible"}, TokenFailed(c, result),
           result = "denied" => ~keyOK' \/ source'.replaced \/ reach' # First
    PROVE  /\ Moves(c) /\ call'[c].pc # "minting"
           /\ RequestInv(call[c])' /\ WriteInv(call[c])'
  <1> USE DEF HostedInv
  <1>1. RequestInv(call[c]) /\ WriteInv(call[c]) /\ call[c] \in CallRecords
    BY BusyCalls DEF At
  <1>2. result \in Results
    BY DEF Results
  <1>3. /\ Moves(c)
        /\ call'[c].applied = call[c].applied /\ call'[c].tok = call[c].tok
        /\ \/ call'[c].pc = "token" /\ ~call'[c].replay /\ call'[c].refusals = 0
           \/ call'[c].pc = "done" /\ call'[c].result = result
    BY <1>2, TokenFailedFacts
  <1>4. OneOf(call[c].tok)'
    BY <1>1, <1>3 DEF Kept, RequestInv, CallRecords
  <1>5. WriteInv(call[c])'
    BY <1>1, <1>3 DEF WriteInv, Open, Moves, At
  <1>6. RequestInv(call[c])'
    BY <1>1, <1>3, <1>4 DEF RequestInv, Open, Queueing, Denied
  <1> QED BY <1>3, <1>5, <1>6

\* A quiet step of one call keeps the invariant, if that call keeps its part of it.
LEMMA QuietStep ==
    ASSUME HostedAssumption, HostedInv, NEW c \in Callers, Moves(c), Quiet,
           ~At(c, "idle"), ~At(c, "done"), faults' \in 0 .. MaxFaults,
           \/ minting' = minting /\ ~At(c, "minting") /\ call'[c].pc # "minting"
           \/ minting' = Nobody /\ At(c, "minting") /\ call'[c].pc # "minting"
           \/ minting = Nobody /\ minting' = c /\ call'[c].pc = "minting",
           RequestInv(call[c])', WriteInv(call[c])'
    PROVE  HostedInv'
  <1> USE DEF HostedInv
  <1>1. TypeOK'
    <2>1. /\ minting' \in Callers \cup {Nobody}
          /\ \A d \in Callers : call'[d].pc = "minting" <=> minting' = d
      BY MintingKept
    <2> QED BY <2>1, QuietType DEF Moves
  <1>2. Kept /\ SourceInv'
    BY QuietKept
  <1>3. late' = late /\ calls' = calls
    BY DEF Quiet
  <1> QED BY <1>1, <1>2, <1>3, OneCall

\* The caller queues for the minting channel, or takes it.
LEMMA Queues ==
    ASSUME HostedAssumption, HostedInv, NEW c \in Callers, Quiet, kind = "login",
           NEW pc \in Queueing, At(c, "token") \/ At(c, "waiting"),
           Put(c, [call[c] EXCEPT !.pc = pc])
    PROVE  /\ Moves(c) /\ call'[c].pc = pc
           /\ RequestInv(call[c])' /\ WriteInv(call[c])'
  <1> USE DEF HostedInv
  <1>1. ~At(c, "idle") /\ RequestInv(call[c]) /\ WriteInv(call[c]) /\ call[c] \in CallRecords
    BY BusyCalls DEF At
  <1> DEFINE r == [call[c] EXCEPT !.pc = pc]
  <1>2. /\ r \in CallRecords /\ r.op = call[c].op /\ r.id = call[c].id /\ r.tok = call[c].tok
        /\ r.applied = call[c].applied /\ r.refusals = call[c].refusals /\ r.pc = pc
        /\ r.replay = call[c].replay
    BY <1>1 DEF CallRecords, Pcs, Queueing
  <1> HIDE DEF r
  <1>3. Moves(c) /\ call'[c] = r
    BY <1>2, PutFacts DEF r
  <1>4. OneOf(call[c].tok)'
    BY <1>1, <1>2, <1>3, QuietKept DEF Kept, RequestInv, CallRecords
  <1>5. WriteInv(call[c])'
    BY <1>1, <1>2, <1>3 DEF WriteInv, Open, Queueing, At
  <1>6. RequestInv(call[c])'
    BY <1>1, <1>2, <1>3, <1>4 DEF RequestInv, Open, Queueing, At, Quiet, remote
  <1> QED BY <1>2, <1>3, <1>5, <1>6

\* Asking the source for a token keeps the invariant.
LEMMA TokenStep ==
    ASSUME HostedAssumption, HostedInv, NEW c \in Callers, Token(c)
    PROVE  HostedInv'
  <1>1. Quiet /\ minting' = minting /\ ~At(c, "idle") /\ ~At(c, "done") /\ ~At(c, "minting") /\ At(c, "token")
    BY DEF Token, Quiet, At
  <1>2. faults' \in 0 .. MaxFaults /\ Kept /\ UNCHANGED source
    BY <1>1, QuietKept DEF Token, TypeOK, HostedInv, Quiet
  <1>3. /\ Moves(c) /\ call'[c].pc # "minting"
        /\ RequestInv(call[c])' /\ WriteInv(call[c])'
    <2>1. CASE source.replaced
      <3>1. TokenFailed(c, "denied") /\ source'.replaced
        BY <2>1, <1>2 DEF Token
      <3> QED BY <3>1, <1>1, <1>2, FailedFor
    <2>2. CASE ~source.replaced /\ (kind = "fixed" \/ Current # NoToken)
      <3>1. SendWith(c, source.token)
        BY <2>2 DEF Token
      <3> QED BY <3>1, <2>2, <1>1, SendHeld
    <2>3. CASE ~source.replaced /\ ~(kind = "fixed" \/ Current # NoToken)
      <3>1. Put(c, [call[c] EXCEPT !.pc = "waiting"]) /\ kind = "login" /\ "waiting" \in Queueing
        BY <2>3 DEF Token, HostedInv, TypeOK, Queueing
      <3> QED BY <3>1, <1>1, Queues
    <2> QED BY <2>1, <2>2, <2>3
  <1> QED BY <1>1, <1>2, <1>3, QuietStep

\* Taking the minting channel keeps the invariant.
LEMMA AcquireStep ==
    ASSUME HostedAssumption, HostedInv, NEW c \in Callers, Acquire(c)
    PROVE  HostedInv'
  <1>1. Quiet /\ ~At(c, "idle") /\ ~At(c, "done") /\ ~At(c, "minting") /\ At(c, "waiting") /\ minting = Nobody
    BY DEF Acquire, Quiet, At
  <1>2. faults' \in 0 .. MaxFaults /\ Kept /\ UNCHANGED source
    BY <1>1, QuietKept DEF Acquire, TypeOK, HostedInv, Quiet
  <1>3. CASE source.replaced /\ TokenFailed(c, "denied") /\ UNCHANGED minting
    <2>1. /\ Moves(c) /\ call'[c].pc # "minting"
          /\ RequestInv(call[c])' /\ WriteInv(call[c])'
      BY <1>1, <1>2, <1>3, FailedFor
    <2> QED BY <1>1, <1>2, <1>3, <2>1, QuietStep
  <1>4. CASE Current # NoToken /\ SendWith(c, source.token) /\ UNCHANGED minting
    <2>1. /\ Moves(c) /\ call'[c].pc # "minting"
          /\ RequestInv(call[c])' /\ WriteInv(call[c])'
      BY <1>1, <1>4, SendHeld
    <2> QED BY <1>1, <1>2, <1>4, <2>1, QuietStep
  <1>5. CASE minting' = c /\ Put(c, [call[c] EXCEPT !.pc = "minting"])
    <2>1. kind = "login" /\ "minting" \in Queueing
      BY <1>1 DEF HostedInv, RequestInv, Queueing, At
    <2>2. /\ Moves(c) /\ call'[c].pc = "minting"
          /\ RequestInv(call[c])' /\ WriteInv(call[c])'
      BY <1>1, <1>5, <2>1, Queues
    <2> QED BY <1>1, <1>2, <1>5, <2>2, QuietStep
  <1> QED BY <1>3, <1>4, <1>5 DEF Acquire

\* A cancelled wait for the channel keeps the invariant.
LEMMA GiveUpStep ==
    ASSUME HostedAssumption, HostedInv, NEW c \in Callers, GiveUp(c)
    PROVE  HostedInv'
  <1> USE DEF HostedInv
  <1>1. Quiet /\ minting' = minting /\ ~At(c, "idle") /\ ~At(c, "done") /\ ~At(c, "minting") /\ Fault
    BY DEF GiveUp, Quiet, At
  <1>2. faults' \in 0 .. MaxFaults /\ Kept
    BY <1>1, FaultType, QuietKept
  <1>3. RequestInv(call[c]) /\ WriteInv(call[c]) /\ call[c] \in CallRecords
    BY <1>1, BusyCalls
  <1>4. /\ Moves(c)
        /\ call'[c].pc = "done" /\ call'[c].result = "transport" /\ call'[c].tok = call[c].tok
        /\ call'[c].applied = call[c].applied
    <2>1. "transport" \in Results
      BY DEF Results
    <2> QED BY <1>1, <2>1, DoneFacts DEF GiveUp
  <1>5. OneOf(call[c].tok)'
    BY <1>2, <1>3, <1>4 DEF Kept, RequestInv, CallRecords
  <1>6. WriteInv(call[c])'
    BY <1>1, <1>3, <1>4 DEF WriteInv, Open, Moves, At
  <1>7. RequestInv(call[c])'
    BY <1>3, <1>4, <1>5 DEF RequestInv, Open, Queueing
  <1> QED BY <1>1, <1>2, <1>4, <1>6, <1>7, QuietStep

\* A refused exchange keeps the invariant.
LEMMA MintRefusedStep ==
    ASSUME HostedAssumption, HostedInv, NEW c \in Callers, MintRefused(c)
    PROVE  HostedInv'
  <1>1. Quiet /\ minting' = Nobody /\ ~At(c, "idle") /\ ~At(c, "done") /\ At(c, "minting")
    BY DEF MintRefused, Quiet, At
  <1>2. faults' \in 0 .. MaxFaults /\ Kept
    BY <1>1, QuietKept DEF MintRefused, TypeOK, HostedInv
  <1>3. TokenFailed(c, "denied") /\ (~keyOK' \/ reach' # First)
    BY DEF MintRefused, HostedAssumption, remote
  <1>4. /\ Moves(c) /\ call'[c].pc # "minting"
        /\ RequestInv(call[c])' /\ WriteInv(call[c])'
    BY <1>1, <1>2, <1>3, FailedFor
  <1> QED BY <1>1, <1>2, <1>4, QuietStep

-----------------------------------------------------------------------------
(* The mint.                                                               *)

\* The tokens of the gateway and the source after the site issued one, or none.
LEMMA IssuedType ==
    ASSUME HostedAssumption, TypeOK, NEW c \in Callers, reach # None,
           \/ issued' = issued /\ live' = live
           \/ issued' = issued + 1 /\ live' \in {live, live \cup {Tok(issued + 1, reach)}}
    PROVE  /\ issued' \in Nat /\ live' \subseteq [n : 1 .. issued', id : Ids]
           /\ issued <= issued'
           /\ source.token \in [n : 0 .. issued', id : Ids \cup {None}]
  <1>1. issued \in Nat /\ live \subseteq [n : 1 .. issued, id : Ids] /\ reach \in Ids
    BY DEF TypeOK
  <1>2. source.token \in [n : 0 .. issued, id : Ids \cup {None}]
    BY DEF TypeOK
  <1>3. issued' \in Nat /\ issued <= issued'
    BY <1>1
  <1>4. [n : 1 .. issued, id : Ids] \subseteq [n : 1 .. issued', id : Ids]
    BY <1>1, <1>3
  <1>5. issued' = issued + 1 => Tok(issued + 1, reach) \in [n : 1 .. issued', id : Ids]
    BY <1>1 DEF Tok
  <1>6. source.token \in [n : 0 .. issued', id : Ids \cup {None}]
    BY <1>1, <1>2, <1>3
  <1> QED BY <1>1, <1>3, <1>4, <1>5, <1>6

\* MintFailed leaves the source as it was; a token nobody holds may be live.
LEMMA MintFailedStep ==
    ASSUME HostedAssumption, HostedInv, NEW c \in Callers, MintFailed(c)
    PROVE  HostedInv'
  <1> USE DEF HostedInv
  <1>1. /\ ~At(c, "idle") /\ ~At(c, "done") /\ At(c, "minting") /\ minting' = Nobody /\ Fault
        /\ UNCHANGED <<remote, obj, source, phase, etag, late, calls, ghosts>>
    BY DEF MintFailed, At
  <1>2. PICK result \in {"limited", "transport", "incompatible"} : TokenFailed(c, result)
    BY DEF MintFailed
  <1>3. /\ issued' \in Nat /\ live' \subseteq [n : 1 .. issued', id : Ids]
        /\ issued <= issued'
        /\ source.token \in [n : 0 .. issued', id : Ids \cup {None}]
    <2>1. CASE issued' = issued /\ live' = live
      BY <2>1 DEF TypeOK
    <2>2. CASE reach # None /\ issued' = issued + 1 /\ live' \in {live, live \cup {Tok(issued + 1, reach)}}
      BY <2>2, IssuedType
    <2> QED BY <2>1, <2>2 DEF MintFailed, Issue
  <1>4. Kept
    BY <1>1, <1>3 DEF Kept, OneOf, remote, ghosts, Tokens, TypeOK
  <1>5. /\ Moves(c) /\ call'[c].pc # "minting"
        /\ RequestInv(call[c])' /\ WriteInv(call[c])'
    BY <1>1, <1>2, <1>4, FailedFor
  <1>6. TypeOK'
    <2>1. /\ minting' \in Callers \cup {Nobody}
          /\ \A d \in Callers : call'[d].pc = "minting" <=> minting' = d
      BY <1>1, <1>5, MintingKept
    <2>2. faults' \in 0 .. MaxFaults
      BY <1>1, FaultType
    <2>3. source' \in [token : [n : 0 .. issued', id : Ids \cup {None}], due : BOOLEAN,
                       spaceID : Ids \cup {None}, replaced : BOOLEAN]
      BY <1>1, <1>3 DEF TypeOK
    <2> QED BY <1>1, <1>3, <1>5, <2>1, <2>2, <2>3 DEF TypeOK, At, Moves, remote, ghosts
  <1>7. SourceInv'
    <2>1. OneOf(source.token) /\ source.token \in Tokens
      BY DEF SourceInv, TypeOK, Tokens
    <2> QED BY <1>1, <1>4, <2>1 DEF SourceInv, Kept, remote, ghosts
  <1> QED BY <1>1, <1>4, <1>5, <1>6, <1>7, OneCall

\* Bind refuses every space but the one the process started on.
LEMMA BindFacts ==
    ASSUME TypeOK, SourceInv, kind = "login", NEW id \in Ids \cup {None}
    PROVE  /\ Bind(id) \in [token : {source.token}, due : BOOLEAN,
                            spaceID : Ids \cup {None}, replaced : BOOLEAN]
           /\ source.replaced => Bind(id).replaced
           /\ started # None => Bind(id).spaceID = started
           /\ ~Bind(id).replaced /\ started # None => id = started
           /\ source.spaceID = None => Bind(id).spaceID = id /\ Bind(id).replaced = source.replaced
  <1>1. source.spaceID \in Ids \cup {None} /\ (started # None => source.spaceID = started)
    BY DEF TypeOK, SourceInv
  <1>2. CASE source.spaceID = None
    <2>1. Bind(id) = [source EXCEPT !.spaceID = id]
      BY <1>2 DEF Bind
    <2> QED BY <1>1, <1>2, <2>1 DEF TypeOK
  <1>3. CASE source.spaceID # None /\ id # source.spaceID
    <2>1. Bind(id) = [source EXCEPT !.replaced = TRUE]
      BY <1>3 DEF Bind
    <2> QED BY <1>1, <1>3, <2>1 DEF TypeOK
  <1>4. CASE source.spaceID # None /\ id = source.spaceID
    <2>1. Bind(id) = source
      BY <1>4 DEF Bind
    <2> QED BY <1>1, <1>4, <2>1 DEF TypeOK
  <1> QED BY <1>2, <1>3, <1>4

\* Mint: a refused binding leaves the held token, an accepted one replaces it.
LEMMA MintStep ==
    ASSUME HostedAssumption, HostedInv, NEW c \in Callers, Mint(c)
    PROVE  HostedInv'
  <1> USE DEF HostedInv
  <1>1. /\ ~At(c, "idle") /\ ~At(c, "done") /\ At(c, "minting") /\ minting' = Nobody
        /\ UNCHANGED <<remote, obj, phase, etag, late, calls, faults, landed, refused>>
    BY DEF Mint, At
  <1>2. reach \in Ids /\ None \notin Ids /\ issued \in Nat
    BY DEF Mint, TypeOK, HostedAssumption
  <1>3. kind = "login" /\ RequestInv(call[c]) /\ WriteInv(call[c]) /\ call[c] \in CallRecords
    BY <1>1, BusyCalls DEF RequestInv, Queueing, At
  <1> DEFINE t == Tok(issued + 1, reach)
  <1>4. t \in Tokens /\ t # NoToken /\ t.id = reach /\ t.n = issued + 1
    BY <1>2 DEF Tok, Tokens, NoToken
  <1> HIDE DEF t
  <1>5. PICK id \in {reach, None} :
           IF Bind(id).replaced
           THEN /\ source' = Bind(id) /\ TokenFailed(c, "denied")
                /\ issued' = issued + 1 /\ live' \in {live, live \cup {t}}
                /\ UNCHANGED <<got, started>>
           ELSE /\ source' = [Bind(id) EXCEPT !.token = t, !.due = FALSE]
                /\ SendWith(c, t) /\ issued' = issued + 1 /\ live' = live \cup {t}
                /\ got' = t /\ started' = IF got = NoToken THEN id ELSE started
    BY DEF Mint, Issue, t
  <1>6. id \in Ids \cup {None}
    BY <1>2
  <1> DEFINE b == Bind(id)
  <1>7. /\ b \in [token : {source.token}, due : BOOLEAN, spaceID : Ids \cup {None}, replaced : BOOLEAN]
        /\ source.replaced => b.replaced
        /\ started # None => b.spaceID = started
        /\ ~b.replaced /\ started # None => id = started
        /\ source.spaceID = None => b.spaceID = id /\ b.replaced = source.replaced
    BY <1>3, <1>6, BindFacts
  <1> HIDE DEF b
  <1>8. /\ issued' \in Nat /\ live' \subseteq [n : 1 .. issued', id : Ids]
        /\ source.token \in [n : 0 .. issued', id : Ids \cup {None}]
        /\ issued' = issued + 1
    <2>1. issued' = issued + 1 /\ live' \in {live, live \cup {Tok(issued + 1, reach)}}
      BY <1>5 DEF t
    <2> QED BY <1>2, <2>1, IssuedType
  <1>9. CASE b.replaced
    <2>1. /\ source' = b /\ TokenFailed(c, "denied") /\ UNCHANGED <<got, started>>
      BY <1>5, <1>9 DEF b
    <2>2. source'.token = source.token
      BY <2>1, <1>7
    <2>3. Kept
      BY <1>1, <1>2, <1>8, <1>9, <2>1, <2>2 DEF Kept, OneOf, Tokens, remote
    <2>4. /\ Moves(c) /\ call'[c].pc # "minting"
          /\ RequestInv(call[c])' /\ WriteInv(call[c])'
      BY <1>1, <1>9, <2>1, <2>3, FailedFor
    <2>5. TypeOK'
      <3>1. /\ minting' \in Callers \cup {Nobody}
            /\ \A d \in Callers : call'[d].pc = "minting" <=> minting' = d
        BY <1>1, <2>4, MintingKept
      <3>2. source' \in [token : [n : 0 .. issued', id : Ids \cup {None}], due : BOOLEAN,
                         spaceID : Ids \cup {None}, replaced : BOOLEAN]
        BY <1>7, <1>8, <2>1
      <3> QED BY <1>1, <1>8, <2>1, <2>4, <3>1, <3>2 DEF TypeOK, At, Moves, remote
    <2>6. SourceInv'
      <3>1. OneOf(source.token) /\ source.token \in Tokens
        BY DEF SourceInv, TypeOK, Tokens
      <3>2. OneOf(source.token)'
        BY <2>2, <2>3, <3>1 DEF Kept
      <3>3. got # NoToken
        BY <1>3, <1>7, <1>9 DEF SourceInv
      <3> QED BY <1>1, <1>3, <1>7, <2>1, <2>2, <3>2, <3>3 DEF SourceInv, remote
    <2> QED BY <1>1, <2>3, <2>4, <2>5, <2>6, OneCall
  <1>10. CASE ~b.replaced
    <2>1. /\ source' = [b EXCEPT !.token = t, !.due = FALSE] /\ SendWith(c, t)
          /\ got' = t /\ started' = IF got = NoToken THEN id ELSE started
      BY <1>5, <1>10 DEF b
    <2>2. /\ source' \in [token : {t}, due : {FALSE}, spaceID : Ids \cup {None}, replaced : {FALSE}]
          /\ source'.spaceID = b.spaceID
      BY <1>7, <1>10, <2>1
    <2>3. started' # None => t.id = started' /\ source'.spaceID = started'
      BY <1>2, <1>3, <1>4, <1>7, <1>10, <2>1, <2>2 DEF SourceInv
    <2>4. Kept
      <3>1. \A q \in Tokens : OneOf(q) => OneOf(q)'
        BY <1>1, <1>2, <1>3, <1>4, <1>8, <2>1 DEF OneOf, Tokens, remote, SourceInv
      <3>2. \A q \in Tokens : q # NoToken /\ q.n <= issued /\ source.token # q => source'.token # q
        BY <1>2, <1>4, <2>2 DEF Tokens
      <3>3. source.replaced => source'.replaced
        BY <1>7, <1>10
      <3> QED BY <1>1, <3>1, <3>2, <3>3 DEF Kept, remote
    <2>5. /\ Moves(c)
          /\ call'[c].applied = call[c].applied /\ call'[c].replay = call[c].replay
          /\ call'[c].refusals = call[c].refusals
          /\ call'[c].pc = "sent" /\ call'[c].tok = t
      <3>1. t # call[c].tok
        BY <1>2, <1>3, <1>4 DEF RequestInv, OneOf, CallRecords, Tokens
      <3> QED BY <1>1, <1>4, <2>1, <3>1, SendWithFacts
    <2>6. OneOf(call[c].tok)' /\ OneOf(source.token)'
      BY <1>2, <1>4, <1>8, <2>1, <2>2, <2>3, <2>5 DEF OneOf
    <2>7. RequestInv(call[c])' /\ WriteInv(call[c])'
      <3>1. WriteInv(call[c])'
        BY <1>1, <1>3, <2>5 DEF WriteInv, Open, Moves, At
      <3> QED BY <1>1, <1>3, <1>4, <2>5, <2>6, <3>1 DEF RequestInv, Open, Queueing, At
    <2>8. TypeOK'
      <3>1. /\ minting' \in Callers \cup {Nobody}
            /\ \A d \in Callers : call'[d].pc = "minting" <=> minting' = d
        BY <1>1, <2>5, MintingKept
      <3>2. source' \in [token : [n : 0 .. issued', id : Ids \cup {None}], due : BOOLEAN,
                         spaceID : Ids \cup {None}, replaced : BOOLEAN]
        <4>1. t \in [n : 0 .. issued', id : Ids \cup {None}]
          BY <1>2, <1>4, <1>8 DEF Tokens
        <4> QED BY <2>2, <4>1
      <3>3. got' \in Tokens /\ started' \in Ids \cup {None}
        BY <1>4, <1>6, <2>1 DEF TypeOK
      <3> QED BY <1>1, <1>8, <2>5, <3>1, <3>2, <3>3 DEF TypeOK, At, Moves, remote
    <2>9. SourceInv'
      <3>1. started' # None => landed \subseteq {started'}
        BY <1>3, <2>1 DEF SourceInv
      <3> QED BY <1>1, <1>3, <1>4, <2>1, <2>2, <2>3, <2>6, <3>1 DEF SourceInv, remote
    <2> QED BY <1>1, <2>4, <2>5, <2>7, <2>8, <2>9, OneCall
  <1> QED BY <1>9, <1>10

-----------------------------------------------------------------------------
(* A refused request.                                                      *)
LEMMA RejectedFacts ==
    ASSUME TypeOK, SourceInv, NEW t \in refused, t # NoToken, source' = Rejected(t),
           UNCHANGED <<remote, issued, ghosts>>
    PROVE  /\ source' \in [token : [n : 0 .. issued, id : Ids \cup {None}], due : BOOLEAN,
                           spaceID : Ids \cup {None}, replaced : BOOLEAN]
           /\ kind = "login" => source'.token # t
           /\ Kept /\ SourceInv'
  <1>1. source' = source \/ (kind = "login" /\ t = source.token /\ source' = [source EXCEPT !.token = NoToken])
    BY DEF Rejected
  <1>2. issued \in Nat /\ NoToken \in [n : 0 .. issued, id : Ids \cup {None}]
    BY DEF TypeOK, NoToken
  <1>3. /\ source' \in [token : [n : 0 .. issued, id : Ids \cup {None}], due : BOOLEAN,
                        spaceID : Ids \cup {None}, replaced : BOOLEAN]
        /\ source'.token \in {source.token, NoToken}
        /\ source'.spaceID = source.spaceID /\ source'.replaced = source.replaced
        /\ kind = "fixed" => source' = source
    BY <1>1, <1>2 DEF TypeOK
  <1>4. kind = "login" => source'.token # t
    BY <1>1 DEF Rejected, TypeOK
  <1>5. Kept
    BY <1>3 DEF Kept, OneOf, remote, ghosts
  <1>6. OneOf(source.token)'
    <2>1. OneOf(source.token) /\ OneOf(NoToken)
      BY <1>2 DEF SourceInv, OneOf, NoToken
    <2> QED BY <1>3, <2>1 DEF OneOf, remote, ghosts
  <1>7. kind = "login" /\ source'.token = NoToken => got = NoToken \/ got \in refused
    BY <1>1 DEF SourceInv
  <1> QED BY <1>3, <1>4, <1>5, <1>6, <1>7 DEF SourceInv, remote, ghosts

\* A 401 and the forced exchange after it keep the invariant.
LEMMA UnauthorizedStep ==
    ASSUME HostedAssumption, HostedInv, NEW c \in Callers, Unauthorized(c)
    PROVE  HostedInv'
  <1> USE DEF HostedInv
  <1>1. /\ ~At(c, "idle") /\ ~At(c, "done") /\ ~At(c, "minting") /\ call[c].pc = "refused"
        /\ UNCHANGED <<remote, obj, live, minting, issued, phase, etag, late, calls, faults, ghosts>>
    BY DEF Unauthorized, At
  <1>2. RequestInv(call[c]) /\ WriteInv(call[c]) /\ call[c] \in CallRecords
    BY <1>1, BusyCalls
  <1>3. /\ call[c].tok \in refused /\ call[c].tok # NoToken /\ call[c].tok \in Tokens
        /\ call[c].refusals = IF call[c].replay THEN 1 ELSE 0
    BY <1>1, <1>2 DEF RequestInv, Open, CallRecords
  <1> DEFINE r == [call[c] EXCEPT !.refusals = @ + 1]
  <1>4. /\ r \in CallRecords /\ r.op = call[c].op /\ r.id = call[c].id /\ r.tok = call[c].tok
        /\ r.applied = call[c].applied /\ r.refusals = IF call[c].replay THEN 2 ELSE 1
    <2>1. call[c].refusals + 1 \in Nat
      BY <1>2 DEF CallRecords
    <2> QED BY <1>2, <1>3, <2>1 DEF CallRecords
  <1> DEFINE q == [r EXCEPT !.pc = "token", !.replay = TRUE]
  <1>5. /\ q \in CallRecords /\ q.op = call[c].op /\ q.id = call[c].id /\ q.tok = call[c].tok
        /\ q.applied = call[c].applied /\ q.refusals = r.refusals /\ q.pc = "token" /\ q.replay
    BY <1>4 DEF CallRecords, Pcs
  <1> HIDE DEF r, q
  <1>6. /\ source' \in [token : [n : 0 .. issued, id : Ids \cup {None}], due : BOOLEAN,
                        spaceID : Ids \cup {None}, replaced : BOOLEAN]
        /\ ~call[c].replay /\ kind = "login" => source'.token # call[c].tok
        /\ Kept /\ SourceInv'
    <2>1. CASE UNCHANGED source /\ call[c].replay
      BY <1>1, <2>1 DEF TypeOK, SourceInv, Kept, OneOf, remote, ghosts
    <2>2. CASE source' = Rejected(call[c].tok)
      BY <1>1, <1>3, <2>2, RejectedFacts
    <2> QED BY <2>1, <2>2 DEF Unauthorized
  <1>7. \/ call[c].replay /\ Put(c, Finish(r, "denied"))
        \/ ~call[c].replay /\ call[c].op \in Streamed /\ Put(c, Finish(r, UploadRefused(c)))
        \/ ~call[c].replay /\ call[c].op \notin Streamed /\ Put(c, q)
    BY DEF Unauthorized, r, q
  <1>8. /\ Moves(c) /\ call'[c].pc # "minting" /\ call'[c].tok = call[c].tok
        /\ call'[c].applied = call[c].applied
        /\ \/ /\ call'[c].pc = "done" /\ call[c].replay /\ call'[c].refusals = 2
              /\ call'[c].result = "denied"
           \/ /\ call'[c].pc = "done" /\ ~call[c].replay /\ call'[c].refusals = 1
              /\ call'[c].result = UploadRefused(c) /\ call[c].op \in Streamed
           \/ /\ call'[c].pc = "token" /\ call'[c].replay /\ call'[c].refusals = 1
              /\ ~call[c].replay
    <2>1. "denied" \in Results /\ UploadRefused(c) \in Results
      BY DEF Results, UploadRefused
    <2>2. CASE call[c].replay /\ Put(c, Finish(r, "denied"))
      <3> DEFINE f == Finish(r, "denied")
      <3>1. /\ f \in CallRecords /\ f.op = call[c].op /\ f.id = call[c].id /\ f.tok = call[c].tok
            /\ f.applied = call[c].applied /\ f.refusals = 2 /\ f.pc = "done" /\ f.result = "denied"
        BY <1>4, <2>1, <2>2, FinishFacts
      <3> HIDE DEF f
      <3>2. Moves(c) /\ call'[c] = f
        BY <2>2, <3>1, PutFacts DEF f
      <3> QED BY <2>2, <3>1, <3>2
    <2>3. CASE ~call[c].replay /\ call[c].op \in Streamed /\ Put(c, Finish(r, UploadRefused(c)))
      <3> DEFINE f == Finish(r, UploadRefused(c))
      <3>1. /\ f \in CallRecords /\ f.op = call[c].op /\ f.id = call[c].id /\ f.tok = call[c].tok
            /\ f.applied = call[c].applied /\ f.refusals = 1 /\ f.pc = "done"
            /\ f.result = UploadRefused(c)
        BY <1>4, <2>1, <2>3, FinishFacts
      <3> HIDE DEF f
      <3>2. Moves(c) /\ call'[c] = f
        BY <2>3, <3>1, PutFacts DEF f
      <3> QED BY <2>3, <3>1, <3>2
    <2>4. CASE ~call[c].replay /\ call[c].op \notin Streamed /\ Put(c, q)
      <3>1. Moves(c) /\ call'[c] = q
        BY <1>5, <2>4, PutFacts
      <3> QED BY <1>4, <1>5, <2>4, <3>1
    <2> QED BY <1>7, <2>2, <2>3, <2>4
  <1>9. TypeOK'
    <2>1. /\ minting' \in Callers \cup {Nobody}
          /\ \A d \in Callers : call'[d].pc = "minting" <=> minting' = d
      BY <1>1, <1>8, MintingKept
    <2> QED BY <1>1, <1>6, <1>8, <2>1 DEF TypeOK, At, Moves, remote, ghosts
  <1>10. OneOf(call[c].tok)'
    BY <1>2, <1>3, <1>6, <1>8 DEF Kept, RequestInv
  <1>11. WriteInv(call[c])'
    BY <1>1, <1>2, <1>8 DEF WriteInv, Open, Moves, Streamed
  <1>12. RequestInv(call[c])'
    <2>1. UploadRefused(c) = "renewed" \/ (UploadRefused(c) = "denied" /\ kind' = "fixed")
      BY <1>1 DEF UploadRefused, TypeOK, remote
    <2> QED BY <1>1, <1>3, <1>6, <1>8, <1>10, <2>1 DEF RequestInv, Open, Queueing, Denied, Kept
  <1> QED BY <1>1, <1>6, <1>8, <1>9, <1>11, <1>12, OneCall

-----------------------------------------------------------------------------
(* The gateway.                                                            *)

\* What the gateway answers, and why.
LEMMA ServedFacts ==
    ASSUME HostedAssumption, HostedInv, NEW r \in CallRecords, NEW ans \in Served(r)
    PROVE  /\ Authorize(r) \in {"401", "no_space", "403", "serve"}
           /\ Authorize(r) = "serve" => r.tok \in live /\ r.tok.id \in Ids
           /\ Authorize(r) = "no_space" => reach # First
           /\ Authorize(r) = "403" => readOnly
           /\ Authorize(r) # "serve" => ans = Authorize(r)
           /\ Authorize(r) = "serve" /\ r.op # "list" => ans \in {"ok", "507", "no_object", "412"}
           /\ Authorize(r) = "serve" /\ r.op = "list" => ans \in Cursors \cup {None}
           /\ r.op # "list" /\ ans = "no_object" => r.op = "read"
           /\ r.op = "replace" /\ ans = "ok" => Authorize(r) = "serve"
           /\ r.op = "replace" /\ Authorize(r) = "serve" => ans \in {"ok", "412"}
  <1>1. Authorize(r) \in {"401", "no_space", "403", "serve"}
    BY DEF Authorize
  <1>2. Authorize(r) # "401" => r.tok \in live /\ r.tok.id \in Ids
    BY DEF Authorize, HostedInv, TypeOK
  <1>3. Authorize(r) = "no_space" => exists # Ids
    BY <1>2 DEF Authorize
  <1>4. Authorize(r) = "403" => readOnly
    BY DEF Authorize
  <1>5. Authorize(r) # "serve" => ans = Authorize(r)
    BY DEF Served
  <1>6. r.op \in {"check", "read", "list", "delete", "pack", "replace"}
    BY DEF CallRecords, Idempotent, Streamed
  <1>7. ASSUME Authorize(r) = "serve"
        PROVE  /\ r.op = "read" => ans \in {"ok", "no_object"}
               /\ r.op = "replace" => ans \in {"ok", "412"}
               /\ r.op = "pack" => ans \in {"ok", "507"}
               /\ r.op = "list" => ans \in Cursors \cup {None}
               /\ r.op \in {"check", "delete"} => ans = "ok"
    <2> USE <1>7 DEF Served
    <2>1. CASE r.op = "read"
      BY <2>1 DEF ReadAnswer
    <2>2. CASE r.op = "replace"
      BY <2>2 DEF PutSmallAnswer
    <2>3. CASE r.op = "pack"
      BY <2>3 DEF PutPackAnswers
    <2>4. CASE r.op = "list"
      BY <2>4 DEF ListAnswers
    <2>5. CASE r.op = "check"
      BY <2>5 DEF UsageAnswer
    <2>6. CASE r.op = "delete"
      BY <2>6 DEF DeleteAnswer
    <2> QED BY <1>6, <2>1, <2>2, <2>3, <2>4, <2>5, <2>6
  <1>8. exists # Ids => reach # First
    BY DEF HostedInv, SourceInv
  <1>9. Authorize(r) = "serve" /\ r.op # "list" => ans \in {"ok", "507", "no_object", "412"}
    BY <1>6, <1>7
  <1>10. r.op # "list" /\ ans = "no_object" => r.op = "read"
    BY <1>1, <1>5, <1>6, <1>7
  <1>11. r.op = "replace" /\ ans = "ok" => Authorize(r) = "serve"
    BY <1>1, <1>5
  <1> QED BY <1>1, <1>2, <1>3, <1>4, <1>5, <1>7, <1>8, <1>9, <1>10, <1>11

\* Apply: the object grows by a write that was served; a served request is one of
\* the process's space.
LEMMA ApplyFacts ==
    ASSUME HostedAssumption, HostedInv, NEW r \in CallRecords, OneOf(r.tok), NEW ans \in Served(r),
           Apply(r, ans)
    PROVE  /\ obj' \in [Ids -> Nat] /\ landed' \subseteq Ids /\ landed \subseteq landed'
           /\ kind = "login" /\ got = NoToken => landed' = landed
           /\ kind = "login" /\ started # None => landed' \subseteq landed \cup {started}
           /\ Authorize(r) = "serve" => r.tok.id \in landed'
  <1>1. Authorize(r) = "serve" => r.tok \in live /\ r.tok.id \in Ids
    BY ServedFacts
  <1>2. r.tok \in live => r.tok # NoToken
    BY DEF HostedInv, TypeOK, NoToken
  <1>3. r.op = "replace" /\ ans = "ok" => r.tok.id \in Ids
    BY <1>1, ServedFacts
  <1>4. obj' \in [Ids -> Nat]
    BY <1>3 DEF Apply, HostedInv, TypeOK
  <1>5. landed' = landed \/ (Authorize(r) = "serve" /\ landed' = landed \cup {r.tok.id})
    BY DEF Apply
  <1>6. Authorize(r) = "serve" => r.tok.id \in landed'
    BY DEF Apply
  <1>7. landed' \subseteq Ids
    BY <1>1, <1>5 DEF HostedInv, TypeOK
  <1> QED BY <1>1, <1>2, <1>4, <1>5, <1>6, <1>7 DEF OneOf

\* The invariant of the source when only the ghosts of the gateway grow.
LEMMA ServingKept ==
    ASSUME HostedInv, UNCHANGED <<remote, source, issued, got, started>>,
           refused \subseteq refused', landed \subseteq landed',
           kind = "login" /\ got = NoToken => landed' = landed,
           kind = "login" /\ started # None => landed' \subseteq landed \cup {started}
    PROVE  Kept /\ SourceInv'
  <1>1. Kept
    BY DEF Kept, OneOf, remote
  <1>2. OneOf(source.token)'
    BY DEF HostedInv, SourceInv, OneOf, remote
  <1> QED BY <1>1, <1>2 DEF HostedInv, SourceInv, remote

\* An answered request keeps what is known of its call: q is the request with its
\* answer, and what the answer says is true.
LEMMA AnswerKept ==
    ASSUME HostedAssumption, HostedInv, Kept, NEW c \in Callers, At(c, "sent"),
           NEW q \in CallRecords, Put(c, Answered(q)),
           q.op = call[c].op, q.id = call[c].id, q.tok = call[c].tok, q.replay = call[c].replay,
           q.refusals = call[c].refusals,
           q.ans # "none",
           q.ans = "401" => q.tok \in refused',
           q.ans = "403" => readOnly,
           q.ans = "no_space" => reach # First,
           q.ans = "no_object" => q.op = "read" /\ q.hit \in landed',
           q.op = "replace" => q.applied = IF q.ans \in {"ok", "page"} THEN 1 ELSE 0
    PROVE  /\ Moves(c) /\ call'[c].pc # "minting"
           /\ RequestInv(call[c])' /\ WriteInv(call[c])'
           /\ q.op = "replace" /\ q.ans = "lost" =>
                 call'[c].pc = "done" /\ call'[c].result = "transport" /\ call'[c].applied = 0
  <1> USE DEF HostedInv
  <1>1. RequestInv(call[c]) /\ WriteInv(call[c]) /\ call[c] \in CallRecords
    BY BusyCalls DEF At
  <1> DEFINE r == Answered(q)
  <1>2. r \in CallRecords /\ r.op = q.op /\ r.id = q.id /\ r.applied = q.applied
    BY AnsweredFacts
  <1>3. \/ r.pc = "refused" /\ q.ans = "401" /\ r.tok = q.tok /\ r.replay = q.replay /\ r.refusals = q.refusals
        \/ r.pc = "token" /\ ~r.replay /\ r.refusals = 0 /\ r.tok = NoToken /\ r.op \in Idempotent
        \/ /\ r.pc = "done" /\ q.ans \in {"ok", "page"} /\ r.tok = q.tok
           /\ r.result \in {"ok", "transport"} /\ (r.op = "replace" => r.result = "ok")
        \/ /\ r.pc = "done" /\ r.tok = q.tok /\ r.hit = q.hit /\ r.ans = q.ans
           /\ q.ans \notin {"401", "ok", "page"} /\ r.result = StatusError(q.op, q.ans)
    BY <1>2, AnsweredFacts
  <1>4. q.ans \notin {"401", "ok", "page"} =>
           /\ StatusError(q.op, q.ans) \in {"full", "limited", "denied", "absent", "precondition", "transport"}
           /\ StatusError(q.op, q.ans) = "absent" => q.op = "read" /\ q.ans = "no_object"
           /\ StatusError(q.op, q.ans) = "denied" =>
                 q.ans = "403" \/ q.ans = "no_space" \/ (q.ans = "no_object" /\ q.op # "read")
           /\ StatusError(q.op, q.ans) = "precondition" <=> q.ans = "412"
           /\ q.ans \in {"5xx", "lost"} => StatusError(q.op, q.ans) = "transport"
    <2>1. q.ans \in Answers
      BY DEF CallRecords
    <2> QED BY <2>1, StatusFacts
  <1> HIDE DEF r
  <1>5. Moves(c) /\ call'[c] = r
    BY <1>2, PutFacts DEF r
  <1>6. q.tok # NoToken /\ OneOf(call[c].tok) /\ q.tok \in Tokens
        /\ q.refusals = IF q.replay THEN 1 ELSE 0
    BY <1>1 DEF RequestInv, At, Open, CallRecords
  <1>7. OneOf(call[c].tok)'
    <2>1. OneOf(q.tok)'
      BY <1>6 DEF Kept
    <2>2. issued' \in Nat => OneOf(NoToken)'
      BY DEF OneOf, NoToken
    <2>3. CASE r.tok = NoToken
      <3>1. NoToken \in Tokens /\ OneOf(NoToken)
        BY DEF OneOf, NoToken, Tokens, TypeOK
      <3> QED BY <1>5, <2>3, <3>1 DEF Kept, NoToken
    <2>4. CASE r.tok = q.tok
      BY <1>5, <2>1, <2>4
    <2> QED BY <1>3, <2>3, <2>4
  <1>8. WriteInv(call[c])'
    BY <1>2, <1>3, <1>4, <1>5 DEF WriteInv, Open, Idempotent
  <1>9. RequestInv(call[c])'
    <2>1. (r.pc = "done" /\ r.result = "denied") => readOnly \/ reach # First
      BY <1>3, <1>4
    <2>2. (r.pc = "done" /\ r.result = "denied") => Denied(call[c])'
      BY <2>1 DEF Denied, Kept
    <2> QED BY <1>3, <1>4, <1>5, <1>6, <1>7, <1>2, <2>2 DEF RequestInv, Open, Queueing
  <1> QED BY <1>2, <1>3, <1>4, <1>5, <1>8, <1>9 DEF Idempotent

\* An answered request keeps the invariant.
LEMMA ServeStep ==
    ASSUME HostedAssumption, HostedInv, NEW c \in Callers, Serve(c)
    PROVE  HostedInv'
  <1> USE DEF HostedInv
  <1>1. /\ ~At(c, "idle") /\ ~At(c, "done") /\ ~At(c, "minting") /\ At(c, "sent")
        /\ UNCHANGED <<remote, live, source, minting, issued, phase, etag, late, calls, faults, got, started>>
    BY DEF Serve, At
  <1>2. RequestInv(call[c]) /\ WriteInv(call[c]) /\ call[c] \in CallRecords /\ OneOf(call[c].tok)
    BY <1>1, BusyCalls DEF RequestInv
  <1> DEFINE r == call[c]
             page == r.op = "list" /\ Authorize(r) = "serve"
             q(ans) == [r EXCEPT
                          !.ans = IF page THEN "page" ELSE ans,
                          !.cursor = IF page THEN ans ELSE None,
                          !.etag = IF r.op \in {"read", "replace"} /\ ans = "ok"
                                   THEN obj'[r.tok.id] ELSE @,
                          !.hit = IF Authorize(r) = "serve" THEN r.tok.id ELSE None,
                          !.applied = IF r.op = "replace" /\ ans = "ok" THEN @ + 1 ELSE @]
  <1>3. PICK ans \in Served(call[c]) :
           /\ Apply(call[c], ans)
           /\ refused' = IF Authorize(call[c]) = "401" THEN refused \cup {call[c].tok} ELSE refused
           /\ Put(c, Answered(q(ans)))
    BY DEF Serve
  <1>4. /\ Authorize(r) \in {"401", "no_space", "403", "serve"}
        /\ Authorize(r) = "serve" => r.tok \in live /\ r.tok.id \in Ids
        /\ Authorize(r) = "no_space" => reach # First
        /\ Authorize(r) = "403" => readOnly
        /\ Authorize(r) # "serve" => ans = Authorize(r)
        /\ Authorize(r) = "serve" /\ r.op # "list" => ans \in {"ok", "507", "no_object", "412"}
        /\ Authorize(r) = "serve" /\ r.op = "list" => ans \in Cursors \cup {None}
        /\ r.op # "list" /\ ans = "no_object" => r.op = "read"
        /\ r.op = "replace" /\ ans = "ok" => Authorize(r) = "serve"
        /\ r.op = "replace" /\ Authorize(r) = "serve" => ans \in {"ok", "412"}
    BY <1>2, ServedFacts
  <1>5. /\ obj' \in [Ids -> Nat] /\ landed' \subseteq Ids /\ landed \subseteq landed'
        /\ kind = "login" /\ got = NoToken => landed' = landed
        /\ kind = "login" /\ started # None => landed' \subseteq landed \cup {started}
        /\ Authorize(r) = "serve" => r.tok.id \in landed'
    BY <1>2, <1>3, ApplyFacts
  <1>6. Kept /\ SourceInv'
    BY <1>1, <1>3, <1>5, ServingKept
  <1>7. r.op = "replace" => r.applied = 0
    BY <1>1, <1>2 DEF WriteInv, Open, At
  <1> DEFINE a == q(ans)
  <1>8. /\ a \in CallRecords /\ a.op = r.op /\ a.id = r.id /\ a.tok = r.tok /\ a.replay = r.replay
        /\ a.refusals = r.refusals /\ a.ans = (IF page THEN "page" ELSE ans)
        /\ a.hit = (IF Authorize(r) = "serve" THEN r.tok.id ELSE None)
        /\ a.op = "replace" => a.applied = IF ans = "ok" THEN 1 ELSE 0
    <2> DEFINE an == IF page THEN "page" ELSE ans
               cu == IF page THEN ans ELSE None
               et == IF r.op \in {"read", "replace"} /\ ans = "ok" THEN obj'[r.tok.id] ELSE r.etag
               hi == IF Authorize(r) = "serve" THEN r.tok.id ELSE None
               ap == IF r.op = "replace" /\ ans = "ok" THEN r.applied + 1 ELSE r.applied
    <2>1. an \in Answers
      BY <1>4 DEF Answers
    <2>2. cu \in Cursors \cup {None}
      BY <1>4
    <2>3. et \in Nat
      <3>1. r.op \in {"read", "replace"} /\ ans = "ok" => Authorize(r) = "serve"
        BY <1>4
      <3> QED BY <1>2, <1>4, <1>5, <3>1 DEF CallRecords
    <2>4. hi \in Ids \cup {None}
      BY <1>4
    <2>5. ap \in Nat /\ (r.op = "replace" => ap = IF ans = "ok" THEN 1 ELSE 0)
      BY <1>2, <1>7 DEF CallRecords
    <2>6. a = [r EXCEPT !.ans = an, !.cursor = cu, !.etag = et, !.hit = hi, !.applied = ap]
      OBVIOUS
    <2> HIDE DEF an, cu, et, hi, ap, a
    <2>7. /\ a \in CallRecords /\ a.op = r.op /\ a.id = r.id /\ a.tok = r.tok /\ a.replay = r.replay
          /\ a.refusals = r.refusals /\ a.ans = an /\ a.hit = hi /\ a.applied = ap
      BY <1>2, <2>1, <2>2, <2>3, <2>4, <2>5, <2>6 DEF CallRecords
    <2> QED BY <2>5, <2>7 DEF an, hi
  <1>9. Put(c, Answered(a))
    BY <1>3
  <1> HIDE DEF a
  <1>10. /\ a.ans # "none"
         /\ a.ans = "401" => a.tok \in refused'
         /\ a.ans = "403" => readOnly
         /\ a.ans = "no_space" => reach # First
         /\ a.ans = "no_object" => a.op = "read" /\ a.hit \in landed'
         /\ a.op = "replace" => a.applied = IF a.ans \in {"ok", "page"} THEN 1 ELSE 0
    BY <1>3, <1>4, <1>5, <1>8
  <1>11. /\ Moves(c) /\ call'[c].pc # "minting"
         /\ RequestInv(call[c])' /\ WriteInv(call[c])'
    BY <1>1, <1>6, <1>8, <1>9, <1>10, AnswerKept
  <1>12. TypeOK'
    <2>1. /\ minting' \in Callers \cup {Nobody}
          /\ \A d \in Callers : call'[d].pc = "minting" <=> minting' = d
      BY <1>1, <1>11, MintingKept
    <2>2. refused' \subseteq Tokens
      BY <1>2, <1>3 DEF TypeOK, CallRecords
    <2> QED BY <1>1, <1>5, <1>11, <2>1, <2>2 DEF TypeOK, At, Moves, remote
  <1> QED BY <1>1, <1>6, <1>11, <1>12, OneCall

\* The request that was not served, or whose answer was lost.
LEMMA Unanswered ==
    ASSUME HostedAssumption, HostedInv, NEW c \in Callers, At(c, "sent"), Kept,
           NEW ans \in {"5xx", "429", "lost"}, Put(c, Answered([call[c] EXCEPT !.ans = ans]))
    PROVE  /\ Moves(c) /\ call'[c].pc # "minting"
           /\ RequestInv(call[c])' /\ WriteInv(call[c])'
           /\ call[c].op = "replace" /\ ans = "lost" =>
                 call'[c].pc = "done" /\ call'[c].result = "transport" /\ call'[c].applied = 0
  <1> USE DEF HostedInv
  <1>1. WriteInv(call[c]) /\ call[c] \in CallRecords
    BY BusyCalls DEF At
  <1> DEFINE q == [call[c] EXCEPT !.ans = ans]
  <1>2. /\ q \in CallRecords /\ q.op = call[c].op /\ q.id = call[c].id /\ q.tok = call[c].tok
        /\ q.replay = call[c].replay /\ q.refusals = call[c].refusals /\ q.ans = ans
        /\ q.applied = call[c].applied
    BY <1>1 DEF CallRecords, Answers
  <1>3. Put(c, Answered(q))
    OBVIOUS
  <1> HIDE DEF q
  <1>4. q.op = "replace" => q.applied = 0
    BY <1>1, <1>2 DEF WriteInv, Open, At
  <1> QED BY <1>2, <1>3, <1>4, AnswerKept

\* A throttled or failed request keeps the invariant.
LEMMA BusyStep ==
    ASSUME HostedAssumption, HostedInv, NEW c \in Callers, Busy(c)
    PROVE  HostedInv'
  <1>1. /\ ~At(c, "idle") /\ ~At(c, "done") /\ ~At(c, "minting") /\ At(c, "sent")
        /\ Quiet /\ minting' = minting /\ Fault
    BY DEF Busy, At, Quiet
  <1>2. Kept /\ faults' \in 0 .. MaxFaults
    BY <1>1, QuietKept, FaultType DEF HostedInv
  <1>3. PICK ans \in {"5xx", "429"} : Put(c, Answered([call[c] EXCEPT !.ans = ans]))
    BY DEF Busy
  <1>4. /\ Moves(c) /\ call'[c].pc # "minting"
        /\ RequestInv(call[c])' /\ WriteInv(call[c])'
    BY <1>1, <1>2, <1>3, Unanswered
  <1> QED BY <1>1, <1>2, <1>4, QuietStep

\* Lose: a conditional write whose caller gives up may still land.
LEMMA LoseStep ==
    ASSUME HostedAssumption, HostedInv, NEW c \in Callers, Lose(c)
    PROVE  HostedInv'
  <1> USE DEF HostedInv
  <1>1. /\ ~At(c, "idle") /\ ~At(c, "done") /\ ~At(c, "minting") /\ At(c, "sent")
        /\ minting' = minting /\ Fault
        /\ UNCHANGED <<remote, obj, live, source, minting, issued, phase, etag, calls, ghosts>>
        /\ late' = IF call[c].op = "replace" THEN late \cup {call[c]} ELSE late
        /\ Put(c, Answered([call[c] EXCEPT !.ans = "lost"]))
    BY DEF Lose, At
  <1>2. Kept /\ SourceInv' /\ faults' \in 0 .. MaxFaults
    <2>1. Kept /\ SourceInv'
      BY <1>1 DEF Kept, SourceInv, OneOf, remote, ghosts
    <2> QED BY <1>1, <2>1, FaultType
  <1>3. /\ Moves(c) /\ call'[c].pc # "minting"
        /\ RequestInv(call[c])' /\ WriteInv(call[c])'
        /\ call[c].op = "replace" =>
              call'[c].pc = "done" /\ call'[c].result = "transport" /\ call'[c].applied = 0
    BY <1>1, <1>2, Unanswered
  <1>4. RequestInv(call[c]) /\ call[c] \in CallRecords
    BY <1>1, BusyCalls
  <1>5. TypeOK'
    <2>1. /\ minting' \in Callers \cup {Nobody}
          /\ \A d \in Callers : call'[d].pc = "minting" <=> minting' = d
      BY <1>1, <1>3, MintingKept
    <2>2. late' \subseteq CallRecords
      BY <1>1, <1>4 DEF TypeOK
    <2> QED BY <1>1, <1>2, <1>3, <2>1, <2>2 DEF TypeOK, At, Moves, remote, ghosts
  <1>6. \A d \in Callers \ {c} : call'[d] = call[d]
    BY <1>3 DEF Moves
  <1>7. call'[c].id = call[c].id /\ call'[c].pc # "idle"
    BY <1>3 DEF Moves, CallRecords, Pcs
  <1>8. \A r \in late : r.id # call[c].id
    BY <1>1 DEF LateInv, At
  <1>9. \A r \in late' : r \in late \/ (r = call[c] /\ r.op = "replace")
    BY <1>1
  <1>10. LateInv'
    <2>1. \A r \in late' : (r.op = "replace" /\ r.id < calls /\ OneOf(r.tok))'
      <3>1. \A r \in late' : r.tok \in Tokens
        BY <1>5 DEF TypeOK, CallRecords
      <3>2. \A r \in late' : r.op = "replace" /\ r.id < calls /\ OneOf(r.tok)
        BY <1>1, <1>4, <1>9 DEF LateInv, RequestInv
      <3> QED BY <1>1, <1>2, <3>1, <3>2 DEF Kept
    <2>2. \A r, s \in late' : r.id = s.id => r = s
      BY <1>8, <1>9 DEF LateInv
    <2>3. \A d \in Callers : ~At(d, "idle")' => (call[d].id < calls)'
      BY <1>1, <1>6, <1>7 DEF LateInv, At
    <2>4. \A d, e \in Callers : (~At(d, "idle") /\ ~At(e, "idle") /\ call[d].id = call[e].id)' => d = e
      BY <1>1, <1>6, <1>7 DEF LateInv, At
    <2>5. \A r \in late', d \in Callers :
             (~At(d, "idle") /\ call[d].id = r.id)' =>
                (call[d].pc = "done" /\ call[d].result = "transport" /\ call[d].applied = 0)'
      <3> SUFFICES ASSUME NEW r \in late', NEW d \in Callers, call'[d].pc # "idle", call'[d].id = r.id
                   PROVE  call'[d].pc = "done" /\ call'[d].result = "transport" /\ call'[d].applied = 0
        BY DEF At
      <3>1. CASE d = c
        BY <1>3, <1>7, <1>8, <1>9, <3>1
      <3>2. CASE d # c
        <4>1. call'[d] = call[d] /\ ~At(d, "idle")
          BY <1>6, <3>2 DEF At
        <4>2. r \in late
          BY <1>1, <1>9, <3>2, <4>1 DEF LateInv
        <4> QED BY <4>1, <4>2 DEF LateInv
      <3> QED BY <3>1, <3>2
    <2> QED BY <2>1, <2>2, <2>3, <2>4, <2>5 DEF LateInv
  <1>11. ASSUME NEW d \in Callers, ~At(d, "idle")'
         PROVE  RequestInv(call[d])' /\ WriteInv(call[d])'
    BY <1>1, <1>2, <1>3, <1>6, <1>11, OtherCall
  <1> QED BY <1>2, <1>5, <1>10, <1>11

\* Land: the write is applied, or not; no caller was told of its fate.
LEMMA LandStep ==
    ASSUME HostedAssumption, HostedInv, NEW w \in late, Land(w)
    PROVE  HostedInv'
  <1> USE DEF HostedInv
  <1>1. /\ late' = late \ {w}
        /\ UNCHANGED <<remote, live, source, minting, issued, phase, etag, calls, faults, got, started, refused>>
    BY DEF Land
  <1>2. PICK ans \in Served(w) :
           /\ Apply(w, ans)
           /\ call' = [c \in Callers |->
                         IF ans = "ok" /\ call[c].pc # "idle" /\ call[c].id = w.id
                         THEN [call[c] EXCEPT !.applied = @ + 1] ELSE call[c]]
    BY DEF Land
  <1>3. w \in CallRecords /\ OneOf(w.tok)
    BY DEF TypeOK, LateInv
  <1>4. /\ obj' \in [Ids -> Nat] /\ landed' \subseteq Ids /\ landed \subseteq landed'
        /\ kind = "login" /\ got = NoToken => landed' = landed
        /\ kind = "login" /\ started # None => landed' \subseteq landed \cup {started}
    BY <1>2, <1>3, ApplyFacts
  <1>5. Kept /\ SourceInv'
    BY <1>1, <1>4, ServingKept
  <1>6. ASSUME NEW c \in Callers
        PROVE  \/ call'[c] = call[c]
               \/ /\ ~At(c, "idle") /\ call[c].id = w.id /\ call[c] \in CallRecords
                  /\ call'[c] \in CallRecords
                  /\ call'[c].pc = "done" /\ call[c].pc = "done"
                  /\ call'[c].result = "transport" /\ call[c].result = "transport"
                  /\ call'[c].applied = 1 /\ call'[c].id = call[c].id /\ call'[c].op = call[c].op
                  /\ call'[c].tok = call[c].tok
    <2>1. CASE ans = "ok" /\ call[c].pc # "idle" /\ call[c].id = w.id
      <3>1. call'[c] = [call[c] EXCEPT !.applied = @ + 1]
        BY <1>2, <2>1
      <3>2. call[c] \in CallRecords
        BY <2>1, BusyCalls DEF At
      <3>3. call[c].pc = "done" /\ call[c].result = "transport" /\ call[c].applied = 0
        BY <2>1 DEF LateInv, At
      <3> QED BY <2>1, <3>1, <3>2, <3>3 DEF CallRecords, At
    <2>2. CASE ~(ans = "ok" /\ call[c].pc # "idle" /\ call[c].id = w.id)
      BY <1>2, <2>2
    <2> QED BY <2>1, <2>2
  <1>7. TypeOK'
    <2>1. call' \in [Callers -> CallRecords \cup {IdleCall}]
      <3>1. \A c \in Callers : call'[c] \in CallRecords \cup {IdleCall}
        BY <1>6 DEF TypeOK
      <3>2. call' = [c \in Callers |-> call'[c]]
        BY <1>2
      <3> QED BY <3>1, <3>2
    <2>2. \A c \in Callers : call'[c].pc = "minting" <=> minting' = c
      BY <1>1, <1>6 DEF TypeOK, At
    <2> QED BY <1>1, <1>4, <2>1, <2>2 DEF TypeOK, At, remote
  <1>8. LateInv'
    <2>1. \A c \in Callers :
             \/ call'[c] = call[c]
             \/ call'[c].id = call[c].id /\ (call'[c].pc = "idle" <=> call[c].pc = "idle")
      BY <1>6 DEF At
    <2>2. \A r \in late' : r \in late /\ r.id # w.id
      BY <1>1 DEF LateInv
    <2>3. \A r \in late' : (r.op = "replace" /\ r.id < calls /\ OneOf(r.tok))'
      BY <1>1, <1>5, <2>2 DEF LateInv, Kept, TypeOK, CallRecords
    <2>4. \A r, s \in late' : r.id = s.id => r = s
      BY <2>2 DEF LateInv
    <2>5. \A d \in Callers : ~At(d, "idle")' => (call[d].id < calls)'
      BY <1>1, <2>1 DEF LateInv, At
    <2>6. \A d, e \in Callers : (~At(d, "idle") /\ ~At(e, "idle") /\ call[d].id = call[e].id)' => d = e
      BY <2>1 DEF LateInv, At
    <2>7. \A r \in late', d \in Callers :
             (~At(d, "idle") /\ call[d].id = r.id)' =>
                (call[d].pc = "done" /\ call[d].result = "transport" /\ call[d].applied = 0)'
      BY <1>6, <2>2 DEF LateInv, At
    <2> QED BY <2>3, <2>4, <2>5, <2>6, <2>7 DEF LateInv
  <1>9. ASSUME NEW c \in Callers, ~At(c, "idle")'
        PROVE  RequestInv(call[c])' /\ WriteInv(call[c])'
    <2>1. CASE call'[c] = call[c]
      BY <1>5, <1>9, <2>1, OtherCall
    <2>2. CASE call'[c] # call[c]
      <3>1. /\ ~At(c, "idle") /\ call[c] \in CallRecords
            /\ call'[c].pc = "done" /\ call'[c].result = "transport"
            /\ call'[c].applied = 1 /\ call'[c].tok = call[c].tok
        BY <1>6, <2>2
      <3>2. OneOf(call[c].tok)'
        BY <1>5, <3>1 DEF RequestInv, Kept, CallRecords
      <3> QED BY <3>1, <3>2 DEF RequestInv, WriteInv, Open, Queueing
    <2> QED BY <2>1, <2>2
  <1> QED BY <1>5, <1>7, <1>8, <1>9

-----------------------------------------------------------------------------
(* A call begins and returns.                                              *)
LEMMA BeginStep ==
    ASSUME HostedAssumption, HostedInv, NEW c \in Callers, Begin(c)
    PROVE  HostedInv'
  <1> USE DEF HostedInv
  <1>1. /\ At(c, "idle") /\ calls < MaxCalls /\ calls' = calls + 1
        /\ UNCHANGED <<remote, obj, live, source, minting, issued, phase, etag, late, faults, ghosts>>
    BY DEF Begin
  <1> DEFINE new(op) ==
        [pc |-> IF op = "check" THEN "server" ELSE "token", op |-> op, id |-> calls, tok |-> NoToken,
         n |-> 1, replay |-> FALSE, etag |-> etag, ans |-> "none", cursor |-> None,
         seen |-> {}, left |-> Batches, applied |-> 0, hit |-> None, refusals |-> 0, result |-> "none"]
  <1>2. PICK op \in {"read", "replace", "pack", "check"} \cup Cleanup : Put(c, new(op))
    BY DEF Begin
  <1> DEFINE r == new(op)
  <1>3. /\ r \in CallRecords /\ r.id = calls /\ r.tok = NoToken /\ ~r.replay /\ r.applied = 0
        /\ r.refusals = 0 /\ r.pc \in {"server", "token"}
    BY DEF CallRecords, Pcs, Idempotent, Streamed, Cleanup, Tokens, NoToken, Answers, Results,
           TypeOK, HostedAssumption
  <1>4. call' = [call EXCEPT ![c] = r]
    BY <1>2 DEF Put
  <1> HIDE DEF r
  <1>5. /\ call' \in [Callers -> CallRecords \cup {IdleCall}] /\ call'[c] = r
        /\ \A d \in Callers \ {c} : call'[d] = call[d]
    BY <1>3, <1>4 DEF TypeOK
  <1>6. Kept /\ SourceInv'
    BY <1>1 DEF Kept, SourceInv, OneOf, remote, ghosts
  <1>7. TypeOK'
    <2>1. calls' \in 0 .. MaxCalls
      BY <1>1 DEF TypeOK, HostedAssumption
    <2>2. \A d \in Callers : call'[d].pc = "minting" <=> minting' = d
      BY <1>1, <1>3, <1>5 DEF TypeOK, At
    <2> QED BY <1>1, <1>5, <2>1, <2>2 DEF TypeOK, At, remote, ghosts
  <1>8. LateInv'
    <2>1. calls \in Nat /\ late' = late
      BY <1>1 DEF TypeOK
    <2>2. \A w \in late : w.id \in Nat /\ w.tok \in Tokens
      BY DEF TypeOK, CallRecords
    <2>3. \A w \in late' : (w.op = "replace" /\ w.id < calls /\ OneOf(w.tok))'
      BY <1>1, <1>6, <2>1, <2>2 DEF LateInv, Kept
    <2>4. \A d \in Callers : ~At(d, "idle") => call[d].id \in Nat /\ call[d].id < calls
      BY BusyCalls DEF LateInv, CallRecords
    <2>5. \A d \in Callers : ~At(d, "idle")' => (call[d].id < calls)'
      BY <1>1, <1>3, <1>5, <2>1, <2>4 DEF At
    <2>6. \A d, e \in Callers : (~At(d, "idle") /\ ~At(e, "idle") /\ call[d].id = call[e].id)' => d = e
      BY <1>3, <1>5, <2>1, <2>4 DEF LateInv, At
    <2>7. \A w \in late', d \in Callers :
             (~At(d, "idle") /\ call[d].id = w.id)' =>
                (call[d].pc = "done" /\ call[d].result = "transport" /\ call[d].applied = 0)'
      BY <1>3, <1>5, <2>1, <2>2 DEF LateInv, At
    <2> QED BY <2>1, <2>3, <2>5, <2>6, <2>7 DEF LateInv
  <1>9. RequestInv(call[c])' /\ WriteInv(call[c])'
    <2>1. OneOf(call[c].tok)'
      BY <1>3, <1>5, <1>7 DEF OneOf, NoToken, TypeOK
    <2> QED BY <1>3, <1>5, <2>1 DEF RequestInv, WriteInv, Open, Queueing
  <1>10. \A d \in Callers \ {c} : ~At(d, "idle")' => RequestInv(call[d])' /\ WriteInv(call[d])'
    BY <1>5, <1>6, OtherCall
  <1> QED BY <1>6, <1>7, <1>8, <1>9, <1>10

\* The return of a call keeps the invariant.
LEMMA ReturnStep ==
    ASSUME HostedAssumption, HostedInv, NEW c \in Callers, Return(c)
    PROVE  HostedInv'
  <1> USE DEF HostedInv
  <1>1. /\ At(c, "done") /\ call' = [call EXCEPT ![c] = IdleCall]
        /\ UNCHANGED <<remote, obj, live, source, minting, issued, late, calls, faults, ghosts>>
    BY DEF Return, Put
  <1>2. /\ call' \in [Callers -> CallRecords \cup {IdleCall}] /\ call'[c] = IdleCall
        /\ \A d \in Callers \ {c} : call'[d] = call[d]
    BY <1>1 DEF TypeOK
  <1>3. Kept /\ SourceInv'
    BY <1>1 DEF Kept, SourceInv, OneOf, remote, ghosts
  <1>4. TypeOK'
    <2>1. call[c] \in CallRecords
      BY <1>1, BusyCalls DEF At
    <2>2. etag' \in {call[c].etag, 0, etag}
      BY DEF Return
    <2>3. etag' \in Nat
      BY <2>1, <2>2 DEF TypeOK, CallRecords
    <2>4. \A d \in Callers : call'[d].pc = "minting" <=> minting' = d
      BY <1>1, <1>2 DEF TypeOK, At, IdleCall
    <2> QED BY <1>1, <1>2, <2>3, <2>4 DEF TypeOK, At, remote, ghosts
  <1>5. LateInv'
    <2>1. call'[c].pc = "idle"
      BY <1>2 DEF IdleCall
    <2>2. \A w \in late' : (w.op = "replace" /\ w.id < calls /\ OneOf(w.tok))'
      BY <1>1, <1>3 DEF LateInv, Kept, TypeOK, CallRecords
    <2> QED BY <1>1, <1>2, <2>1, <2>2 DEF LateInv, At
  <1>6. \A d \in Callers : ~At(d, "idle")' => RequestInv(call[d])' /\ WriteInv(call[d])'
    BY <1>2, <1>3, OtherCall DEF At, IdleCall
  <1> QED BY <1>3, <1>4, <1>5, <1>6

-----------------------------------------------------------------------------
(* Around the process.                                                     *)
LEMMA AroundStep ==
    ASSUME HostedAssumption, HostedInv,
           Clock \/ (\E t \in live : Expire(t)) \/ RevokeKey \/ Rename
    PROVE  HostedInv'
  <1> USE DEF HostedInv
  <1>1. /\ Fault /\ UNCHANGED <<readOnly, kind, obj, minting, issued, phase, etag, call, late, calls, ghosts>>
    BY DEF Clock, Expire, RevokeKey, Rename, remote
  <1>2. /\ source' = source \/ (kind = "login" /\ source' = [source EXCEPT !.due = ~@])
        /\ live' \subseteq live
        /\ keyOK' \in {keyOK, FALSE}
        /\ \/ reach' = reach /\ exists' = exists
           \/ reach' \in (Ids \cup {None}) \ {First} /\ exists' \subseteq exists
    BY DEF Clock, Expire, RevokeKey, Rename, remote, TypeOK
  <1>3. /\ source'.token = source.token /\ source'.spaceID = source.spaceID
        /\ source'.replaced = source.replaced
        /\ source' \in [token : [n : 0 .. issued, id : Ids \cup {None}], due : BOOLEAN,
                        spaceID : Ids \cup {None}, replaced : BOOLEAN]
    BY <1>2 DEF TypeOK
  <1>4. Kept
    <2>1. ~keyOK => ~keyOK'
      BY <1>2, Zenon
    <2>2. reach # First => reach' # First
      BY <1>2
    <2> QED BY <1>1, <1>3, <2>1, <2>2 DEF Kept, OneOf, ghosts
  <1>5. OneOf(source.token)'
    BY <1>1, <1>3 DEF SourceInv, OneOf, ghosts
  <1>6. exists' # Ids => reach' # First
    BY <1>2 DEF SourceInv
  <1>7. SourceInv'
    BY <1>1, <1>3, <1>5, <1>6 DEF SourceInv, ghosts
  <1>8. TypeOK'
    <2>1. faults' \in 0 .. MaxFaults
      BY <1>1, FaultType
    <2>2. keyOK' \in BOOLEAN
      BY <1>2 DEF TypeOK
    <2>3. reach' \in Ids \cup {None} /\ exists' \subseteq Ids /\ live' \subseteq [n : 1 .. issued, id : Ids]
      BY <1>2 DEF TypeOK
    <2> QED BY <1>1, <1>3, <2>1, <2>2, <2>3 DEF TypeOK, At, ghosts
  <1>9. LateInv'
    <2>1. \A w \in late' : (w.op = "replace" /\ w.id < calls /\ OneOf(w.tok))'
      BY <1>1, <1>4 DEF LateInv, Kept, TypeOK, CallRecords
    <2> QED BY <1>1, <2>1 DEF LateInv, At
  <1>10. \A d \in Callers : ~At(d, "idle")' => RequestInv(call[d])' /\ WriteInv(call[d])'
    BY <1>1, <1>4, OtherCall
  <1> QED BY <1>7, <1>8, <1>9, <1>10

-----------------------------------------------------------------------------
(* The theorems.                                                           *)
LEMMA HostedInit ==
    ASSUME HostedAssumption, Init
    PROVE  HostedInv
  <1>1. PICK g \in Grants : kind = g[1] /\ readOnly = g[2]
    BY DEF Init
  <1>2. kind \in {"login", "fixed"} /\ readOnly \in BOOLEAN
    BY <1>1, Zenon DEF HostedAssumption
  <1>3. /\ kind = "fixed" => live = {Tok(1, First)} /\ source.token = Tok(1, First) /\ issued = 1
        /\ kind = "login" => live = {} /\ source.token = NoToken /\ issued = 0
    BY <1>2, FS_EmptySet, FS_Singleton DEF Init
  <1>4. First \in Ids /\ MaxCalls \in Nat /\ MaxFaults \in Nat /\ Nobody \notin Callers
    BY DEF HostedAssumption
  <1>5. source \in [token : [n : 0 .. issued, id : Ids \cup {None}], due : BOOLEAN,
                    spaceID : Ids \cup {None}, replaced : BOOLEAN]
    <2>1. source.token \in [n : 0 .. issued, id : Ids \cup {None}]
      BY <1>2, <1>3, <1>4 DEF Tok, NoToken
    <2> QED BY <2>1 DEF Init
  <1>6. issued \in Nat /\ live \subseteq [n : 1 .. issued, id : Ids]
    BY <1>2, <1>3, <1>4 DEF Tok
  <1>7. NoToken \in Tokens /\ call \in [Callers -> CallRecords \cup {IdleCall}]
    BY DEF Init, NoToken, Tokens
  <1>8. \A c \in Callers : At(c, "idle")
    BY DEF Init, At, IdleCall
  <1>9. TypeOK
    <2>1. keyOK \in BOOLEAN
      BY Zenon DEF Init
    <2>2. \A c \in Callers : At(c, "minting") <=> minting = c
      BY <1>4, <1>8 DEF Init, At
    <2> QED BY <1>2, <1>4, <1>5, <1>6, <1>7, <2>1, <2>2 DEF Init, TypeOK
  <1>10. SourceInv
    <2>1. OneOf(source.token)
      BY <1>2, <1>3 DEF OneOf, Tok, NoToken
    <2> QED BY <1>2, <1>3, <2>1 DEF Init, SourceInv
  <1>11. LateInv
    BY <1>8 DEF Init, LateInv
  <1> QED BY <1>8, <1>9, <1>10, <1>11 DEF HostedInv

\* Every step keeps the invariant.
LEMMA HostedNext ==
    ASSUME HostedAssumption, HostedInv, [Next]_vars
    PROVE  HostedInv'
  <1>1. CASE \E c \in Callers : Begin(c) \/ Steps(c) \/ GiveUp(c) \/ MintFailed(c) \/ Busy(c) \/ Lose(c)
    <2> PICK c \in Callers : Begin(c) \/ Steps(c) \/ GiveUp(c) \/ MintFailed(c) \/ Busy(c) \/ Lose(c)
      BY <1>1
    <2> QED BY BeginStep, CheckServerStep, TokenStep, AcquireStep, MintStep, MintRefusedStep, ServeStep,
               UnauthorizedStep, ReturnStep, GiveUpStep, MintFailedStep, BusyStep, LoseStep DEF Steps
  <1>2. CASE \E r \in late : Land(r)
    BY <1>2, LandStep
  <1>3. CASE Clock \/ (\E t \in live : Expire(t)) \/ RevokeKey \/ Rename
    BY <1>3, AroundStep
  <1>4. CASE UNCHANGED vars
    <2>1. UNCHANGED <<reach, exists, keyOK, readOnly, kind, obj, live, source, minting, issued, phase, etag,
                      call, late, calls, faults, got, started, landed, refused>>
      BY <1>4 DEF vars, remote, ghosts
    <2> QED BY <2>1 DEF HostedInv, TypeOK, SourceInv, LateInv, RequestInv, WriteInv, OneOf, Open, Denied, At
  <1> QED BY <1>1, <1>2, <1>3, <1>4 DEF Next

\* The token source, the calls and the writes under way keep HostedInv.
THEOREM HostedInvariant == Spec => []HostedInv
  <1>1. Init => HostedInv
    BY HostedInit, HostedAssumption
  <1>2. HostedInv /\ [Next]_vars => HostedInv'
    BY HostedNext, HostedAssumption
  <1> QED BY <1>1, <1>2, PTL DEF Spec

\* bind: for any number of callers, renewals and renames, every request of a process
\* whose first mint named its space is served by that space.
THEOREM OneSpaceServes == Spec => []OneSpace
  <1>1. HostedInv => OneSpace
    BY DEF HostedInv, SourceInv, TypeOK, OneSpace
  <1> QED BY <1>1, HostedInvariant, PTL

\* statusError, putSmall and send: an absent object, a lost race and a denial mean
\* what they say, whatever is lost, late, expired or renamed.
THEOREM AnswersHold == Spec => []AnswersAreTrue
  <1>1. ASSUME HostedInv PROVE AnswersAreTrue
    <2> USE <1>1 DEF HostedInv
    <2>1. AbsentIsTrue
      BY DEF AbsentIsTrue, RequestInv, At
    <2>2. LostRaceIsReal
      <3> SUFFICES ASSUME NEW c \in Callers, call[c].op = "replace"
                   PROVE  /\ call[c].applied <= 1
                          /\ At(c, "done") /\ call[c].result = "precondition" => call[c].applied = 0
                          /\ At(c, "done") /\ call[c].result = "ok" => call[c].applied = 1
        BY DEF LostRaceIsReal
      <3>1. ~At(c, "idle")
        BY DEF TypeOK, At, IdleCall, CallRecords, Pcs
      <3> QED BY <3>1 DEF WriteInv, At
    <2>3. DenialIsReal
      BY DEF DenialIsReal, RequestInv, Denied, At
    <2> QED BY <2>1, <2>2, <2>3 DEF AnswersAreTrue
  <1> QED BY <1>1, HostedInvariant, PTL

\* Rejected and current: no step takes the minting channel while the last accepted
\* token is neither due nor refused.
THEOREM MintsWhenNeeded == Spec => MintsAreNeeded
  <1> DEFINE Needed == \A c \in Callers :
                          (~At(c, "minting") /\ call'[c].pc = "minting") =>
                              source.due \/ got \in refused \cup {NoToken}
  <1>1. HostedInv /\ HostedInv' /\ [Next]_vars => [Needed]_vars
    <2> SUFFICES ASSUME HostedInv, HostedInv', Next, NEW c \in Callers,
                        ~At(c, "minting"), call'[c].pc = "minting"
                 PROVE  source.due \/ got \in refused \cup {NoToken}
      OBVIOUS
    <2>1. minting' = c /\ minting # c /\ c # Nobody
      <3>1. /\ \A d \in Callers : At(d, "minting") <=> minting = d
            /\ \A d \in Callers : call'[d].pc = "minting" <=> minting' = d
        BY DEF HostedInv, TypeOK, At
      <3> QED BY <3>1, HostedAssumption
    <2>2. \E d \in Callers : Acquire(d) /\ minting' = d
      <3>1. ASSUME NEW d \in Callers, Begin(d) \/ CheckServer(d) \/ Token(d) \/ Serve(d) \/ Unauthorized(d)
            PROVE  minting' = minting
        BY <3>1, Zenon DEF Begin, CheckServer, Token, Serve, Unauthorized
      <3>2. ASSUME NEW d \in Callers, Return(d) \/ Busy(d) \/ Lose(d)
            PROVE  minting' = minting
        BY <3>2, Zenon DEF Return, Busy, Lose
      <3>3. ASSUME NEW d \in Callers, GiveUp(d) \/ Mint(d) \/ MintFailed(d) \/ MintRefused(d)
            PROVE  minting' \in {minting, Nobody}
        BY <3>3 DEF GiveUp, Mint, MintFailed, MintRefused
      <3>4. ASSUME NEW r \in late, Land(r) PROVE minting' = minting
        BY <3>4 DEF Land
      <3>5. ASSUME NEW t \in live, Expire(t) PROVE minting' = minting
        BY <3>5 DEF Expire
      <3>6. ASSUME Clock \/ RevokeKey \/ Rename PROVE minting' = minting
        BY <3>6 DEF Clock, RevokeKey, Rename
      <3>7. PICK d \in Callers : Acquire(d)
        BY <2>1, <3>1, <3>2, <3>3, <3>4, <3>5, <3>6 DEF Next, Steps
      <3> QED BY <2>1, <3>7 DEF Acquire
    <2>3. Acquire(c)
      BY <2>1, <2>2
    <2>4. At(c, "waiting") /\ Current = NoToken
      BY <2>1, <2>3 DEF Acquire
    <2>5. kind = "login"
      BY <2>4 DEF HostedInv, RequestInv, Queueing, At
    <2> QED BY <2>4, <2>5 DEF Current, HostedInv, SourceInv
  <1> QED BY <1>1, HostedInvariant, PTL DEF Spec, MintsAreNeeded
=============================================================================
