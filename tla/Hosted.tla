-------------------------------- MODULE Hosted -------------------------------
(***************************************************************************)
(* A process on a hosted space: concurrent calls on the HTTP store         *)
(* (src/internal/httpstore), the token source they share                   *)
(* (src/internal/app/minted.go), the site that mints the tokens and the    *)
(* gateway that serves the requests (httpstore/gatewaytest).  The network  *)
(* loses requests and answers; the gateway's write may land after the      *)
(* caller gave up; the space may be deleted, or its name given to another  *)
(* space, while the process runs.                                          *)
(*                                                                         *)
(* Time is abstract: a held token becomes due, and an issued one expires   *)
(* at the gateway, in either order, as a clock that is wrong allows.       *)
(***************************************************************************)
EXTENDS Naturals, FiniteSets

CONSTANTS
    Slots,          \* calls on the store that may be under way at once
    Ids,            \* server ids of spaces
    First,          \* the space the name reaches at first
    Cursors,        \* cursors a listing may be given
    Grants,         \* <<kind, readOnly>>: how the process may be let in
    None, Nobody,
    Attempts,       \* 1 + Config.Retries
    Batches,        \* delete requests of one DeleteObjects
    MaxCalls,       \* bound: calls after the startup check
    MaxFaults       \* bound: losses, refusals, revocations and expiries together

Callers == 1 .. Slots

ASSUME HostedAssumption ==
    /\ First \in Ids /\ None \notin Ids /\ None \notin Cursors /\ Nobody \notin Callers /\ Slots \in Nat
    /\ Grants \subseteq {"login", "fixed"} \X BOOLEAN
    /\ {Attempts, Batches} \subseteq Nat \ {0} /\ {MaxCalls, MaxFaults} \subseteq Nat

VARIABLES
    reach,      \* the space the name reaches, or None
    exists,     \* the spaces that exist
    obj,        \* the etag of `current` in each space; 0 when absent
    live,       \* the tokens the gateway accepts
    keyOK,      \* the site accepts the stored login's key
    readOnly,   \* the grant is read-only
    kind,       \* "login" for minted tokens, "fixed" for a token of the environment
    source,     \* mintedTokens
    minting,    \* who holds the minting channel
    issued,     \* tokens issued so far
    phase,      \* "starting" until CheckAccess succeeds, then "serving", or "exited"
    etag,       \* the etag of `current` the process last saw
    call,       \* the call of each caller
    late,       \* writes whose caller gave up before an answer
    calls, faults,
    got,        \* the last token the source accepted
    started,    \* the id the first accepted mint named
    landed,     \* the spaces that served a request of the process
    refused     \* the tokens the gateway answered 401 to

remote == <<reach, exists, keyOK, readOnly, kind>>
ghosts == <<got, started, landed, refused>>
vars == <<remote, obj, live, source, minting, issued, phase, etag, call, late, calls, faults, ghosts>>

NoToken == [n |-> 0, id |-> None]
Tok(n, id) == [n |-> n, id |-> id]
IdleCall == [pc |-> "idle", op |-> "none", tok |-> NoToken]

Cleanup == {"list", "delete"}                          \* the cleanup's requests, one at a time
Idempotent == {"check", "read", "list", "delete"}      \* sent with do
Streamed == {"pack"}                                   \* a body that cannot be sent again

Init ==
    /\ reach = First /\ exists = Ids /\ keyOK = TRUE
    /\ \E g \in Grants : kind = g[1] /\ readOnly = g[2]
    /\ obj = [id \in Ids |-> 0]
    /\ live = IF kind = "fixed" THEN {Tok(1, First)} ELSE {}
    /\ issued = Cardinality(live)
    /\ source = [token |-> IF kind = "fixed" THEN Tok(1, First) ELSE NoToken,
                 due |-> FALSE, spaceID |-> None, replaced |-> FALSE]
    /\ minting = Nobody /\ phase = "starting" /\ etag = 0
    /\ call = [c \in Callers |-> IdleCall]
    /\ late = {} /\ calls = 0 /\ faults = 0
    /\ got = NoToken /\ started = None /\ landed = {} /\ refused = {}

Fault == faults < MaxFaults /\ faults' = faults + 1
At(c, pc) == call[c].pc = pc
Put(c, r) == call' = [call EXCEPT ![c] = r]
Done(c, result) == Put(c, [call[c] EXCEPT !.pc = "done", !.result = result])

-----------------------------------------------------------------------------
(* A call begins, in the first free slot.  The startup check runs alone; a *)
(* small write is conditional on the etag the process last saw, an absent  *)
(* one being a create.                                                     *)
Begin(c) ==
    /\ At(c, "idle") /\ calls < MaxCalls /\ phase # "exited"
    /\ \A d \in 1 .. c - 1 : ~At(d, "idle")
    /\ \E op \in (IF phase = "serving" THEN {"read", "replace", "pack"} \cup Cleanup ELSE {"check"}) :
          /\ op = "check" => \A d \in Callers : At(d, "idle")
          /\ op \in Cleanup => \A d \in Callers : call[d].op \notin Cleanup
          /\ Put(c, [pc |-> IF op = "check" THEN "server" ELSE "token", op |-> op, id |-> calls,
                     tok |-> NoToken,
                     n |-> 1, replay |-> FALSE, etag |-> etag, ans |-> "none", cursor |-> None,
                     seen |-> {}, left |-> Batches, applied |-> 0, hit |-> None, refusals |-> 0,
                     result |-> "none"])
    /\ calls' = calls + 1
    /\ UNCHANGED <<remote, obj, live, source, minting, issued, phase, etag, late, faults, ghosts>>

\* checkServer: the tokenless description, retried like any idempotent request; the
\* usage request after it counts its attempts anew.
CheckServer(c) ==
    /\ At(c, "server")
    /\ \/ Put(c, [call[c] EXCEPT !.pc = "token", !.n = 1]) /\ UNCHANGED faults
       \/ /\ Fault
          /\ \/ call[c].n < Attempts /\ Put(c, [call[c] EXCEPT !.n = @ + 1])
             \/ call[c].n = Attempts /\ Done(c, "transport")
             \/ Done(c, "incompatible")
    /\ UNCHANGED <<remote, obj, live, source, minting, issued, phase, etag, late, calls, ghosts>>

-----------------------------------------------------------------------------
(* The token source.                                                       *)
Current == IF source.due THEN NoToken ELSE source.token

\* Build a request with the token, or send the refused one again with another.
SendWith(c, t) ==
    IF call[c].replay /\ t = call[c].tok
    THEN Put(c, [call[c] EXCEPT !.pc = "done", !.result = "denied"])
    ELSE Put(c, [call[c] EXCEPT !.pc = "sent", !.tok = t, !.ans = "none"])

\* A token error ends the call, except that do retries one met while replaying.
TokenFailed(c, result) ==
    IF call[c].replay /\ call[c].op \in Idempotent /\ call[c].n < Attempts
    THEN Put(c, [call[c] EXCEPT !.pc = "token", !.replay = FALSE, !.n = @ + 1, !.refusals = 0])
    ELSE Done(c, result)

\* Token: the kept refusal, the held token, or the queue for the minting channel.
Token(c) ==
    /\ At(c, "token")
    /\ IF source.replaced THEN TokenFailed(c, "denied")
       ELSE IF kind = "fixed" \/ Current # NoToken THEN SendWith(c, source.token)
       ELSE Put(c, [call[c] EXCEPT !.pc = "waiting"])
    /\ UNCHANGED <<remote, obj, live, source, minting, issued, phase, etag, late, calls, faults, ghosts>>

\* Another caller may have minted, or been refused, while this one waited.
Acquire(c) ==
    /\ At(c, "waiting") /\ minting = Nobody
    /\ \/ source.replaced /\ TokenFailed(c, "denied") /\ UNCHANGED minting
       \/ ~source.replaced /\ Current # NoToken /\ SendWith(c, source.token) /\ UNCHANGED minting
       \/ /\ ~source.replaced /\ Current = NoToken
          /\ minting' = c /\ Put(c, [call[c] EXCEPT !.pc = "minting"])
    /\ UNCHANGED <<remote, obj, live, source, issued, phase, etag, late, calls, faults, ghosts>>

\* The caller's own context ends while it waits.
GiveUp(c) ==
    /\ At(c, "waiting") /\ Fault /\ Done(c, "transport")
    /\ UNCHANGED <<remote, obj, live, source, minting, issued, phase, etag, late, calls, ghosts>>

Issue(t) == issued' = issued + 1 /\ live' = live \cup {t}

\* The mutated form takes every id a mint names for the process's space.
MutantBind(id) == [source EXCEPT !.spaceID = id]

\* bind: the first id named is the process's space for good; another id, or none
\* once one was named, is refused from then on.
Bind(id) ==
    CASE source.spaceID = None -> [source EXCEPT !.spaceID = id]
      [] source.spaceID \notin {None, id} -> [source EXCEPT !.replaced = TRUE]
      [] OTHER -> source

\* The site mints a token of the space the name reaches, naming its id or not.
\* A token of another space is discarded: revoked, best effort.
Mint(c) ==
    /\ At(c, "minting") /\ minting' = Nobody
    /\ keyOK /\ reach # None
    /\ \E named \in BOOLEAN :
          LET t == Tok(issued + 1, reach)
              id == IF named THEN reach ELSE None
              bound == Bind(id)
          IN  IF bound.replaced
              THEN /\ source' = bound /\ TokenFailed(c, "denied")
                   /\ issued' = issued + 1 /\ live' \in {live, live \cup {t}}
                   /\ UNCHANGED <<got, started>>
              ELSE /\ source' = [bound EXCEPT !.token = t, !.due = FALSE]
                   /\ SendWith(c, t) /\ Issue(t)
                   /\ got' = t /\ started' = IF got = NoToken THEN id ELSE started
    /\ UNCHANGED <<remote, obj, phase, etag, late, calls, faults, landed, refused>>

\* mintError: a busy or unreachable site, a lost answer, and an answer outside the
\* contract, whose token is discarded, leave the held token as it was.
MintFailed(c) ==
    /\ At(c, "minting") /\ minting' = Nobody /\ Fault
    /\ \/ TokenFailed(c, "limited") /\ UNCHANGED <<issued, live>>
       \/ /\ keyOK /\ reach # None /\ Issue(Tok(issued + 1, reach))
          /\ TokenFailed(c, "transport")
       \/ /\ keyOK /\ reach # None /\ issued' = issued + 1
          /\ live' \in {live, live \cup {Tok(issued + 1, reach)}}
          /\ TokenFailed(c, "incompatible")
    /\ UNCHANGED <<remote, obj, source, phase, etag, late, calls, ghosts>>

\* A refused key, and a space the login does not reach.
MintRefused(c) ==
    /\ At(c, "minting") /\ minting' = Nobody
    /\ ~keyOK \/ reach = None
    /\ TokenFailed(c, "denied")
    /\ UNCHANGED <<remote, obj, live, source, issued, phase, etag, late, calls, faults, ghosts>>

\* The mutated form forgets the held token whichever one was refused.
MutantRejected(t) == [source EXCEPT !.token = NoToken]

\* Rejected: only a refusal of the current token forgets it.
Rejected(t) ==
    IF kind = "login" /\ t = source.token THEN [source EXCEPT !.token = NoToken] ELSE source

-----------------------------------------------------------------------------
(* What the store makes of an answer.                                      *)

\* The mutated form takes every 404 of a read for an absent object.
MutantStatusError(op, ans) ==
    CASE ans = "507" -> "full"
      [] ans = "429" -> "limited"
      [] ans = "403" -> "denied"
      [] ans \in {"no_object", "no_space"} -> "absent"
      [] ans = "412" -> "precondition"
      [] ans \in {"5xx", "lost"} -> "transport"

\* statusError and writeError: only no_object of a read means an absent object.
StatusError(op, ans) ==
    CASE ans = "507" -> "full"
      [] ans = "429" -> "limited"
      [] ans = "403" -> "denied"
      [] ans = "no_object" -> IF op = "read" THEN "absent" ELSE "denied"
      [] ans = "no_space" -> "denied"
      [] ans = "412" -> "precondition"
      [] ans \in {"5xx", "lost"} -> "transport"

\* do: a transport failure or a 5xx of an idempotent request is tried again.  The
\* mutated form sends a conditional write again too.
MutantRetries(r) == r.ans \in {"5xx", "lost"} /\ r.n < Attempts
Retries(r) == r.op \in Idempotent /\ r.ans \in {"5xx", "lost"} /\ r.n < Attempts

Request(r, n) == [r EXCEPT !.pc = "token", !.replay = FALSE, !.n = n, !.ans = "none",
                           !.tok = NoToken, !.hit = None, !.cursor = None, !.refusals = 0]
Finish(r, result) == [r EXCEPT !.pc = "done", !.result = result]

\* ListObjects refuses a cursor it has already followed.
MutantRepeated(r) == FALSE
Repeated(r) == r.cursor \in r.seen

\* The next page of a listing, the next batch of a delete, or the whole answer.
Accept(r) ==
    CASE r.op = "list" /\ r.cursor # None ->
            IF Repeated(r) THEN Finish(r, "transport")
            ELSE [Request(r, 1) EXCEPT !.seen = @ \cup {r.cursor}]
      [] r.op = "delete" /\ r.left > 1 -> [Request(r, 1) EXCEPT !.left = @ - 1]
      [] OTHER -> Finish(r, "ok")

\* Every answer but a 401, which the caller handles with the token source.
Answered(r) ==
    CASE r.ans = "401" -> [r EXCEPT !.pc = "refused"]
      [] r.ans \in {"ok", "page"} -> Accept(r)
      [] Retries(r) -> Request(r, r.n + 1)
      [] OTHER -> Finish(r, StatusError(r.op, r.ans))

\* send: a 401 is reported to the source, and the request goes once more with the
\* token it then gives; a streamed upload fails, to be retried by its caller.
\* The mutated form reports a streamed upload's 401 as a refused credential.
MutantUploadRefused(c) == "denied"
UploadRefused(c) == IF kind = "login" THEN "renewed" ELSE "denied"

Unauthorized(c) ==
    /\ At(c, "refused")
    /\ LET r == [call[c] EXCEPT !.refusals = @ + 1] IN
       \/ /\ call[c].replay /\ Put(c, Finish(r, "denied"))
          /\ UNCHANGED source
       \/ /\ ~call[c].replay /\ source' = Rejected(call[c].tok)
          /\ Put(c, IF call[c].op \in Streamed THEN Finish(r, UploadRefused(c))
                    ELSE [r EXCEPT !.pc = "token", !.replay = TRUE])
    /\ UNCHANGED <<remote, obj, live, minting, issued, phase, etag, late, calls, faults, ghosts>>

\* The caller takes the result: a failed check ends the process, and a read or
\* a small write leaves its etag.
Return(c) ==
    /\ At(c, "done") /\ Put(c, IdleCall)
    /\ phase' = IF call[c].op # "check" THEN phase
                ELSE IF call[c].result = "ok" THEN "serving" ELSE "exited"
    /\ etag' = CASE call[c].op \in {"read", "replace"} /\ call[c].result = "ok" -> call[c].etag
                 [] call[c].result = "absent" -> 0
                 [] OTHER -> etag
    /\ UNCHANGED <<remote, obj, live, source, minting, issued, late, calls, faults, ghosts>>

-----------------------------------------------------------------------------
(* The gateway.  The token's grant decides the space; a request of an      *)
(* unknown token is 401, one whose space is gone is 404 no_space.          *)
Authorize(r) ==
    IF r.tok \notin live THEN "401"
    ELSE IF r.tok.id \notin exists THEN "no_space"
    ELSE IF readOnly /\ r.op \in {"replace", "pack", "delete"} THEN "403"
    ELSE "serve"

\* An object that is absent, a conditional write, a pack that may exceed the quota,
\* a page with or without a cursor, and the space's usage.
ReadAnswer(r) == IF obj[r.tok.id] = 0 THEN "no_object" ELSE "ok"
PutSmallAnswer(r) == IF obj[r.tok.id] = r.etag THEN "ok" ELSE "412"
PutPackAnswers == {"ok", "507"}
ListAnswers == Cursors \cup {None}
UsageAnswer == "ok"
DeleteAnswer == "ok"

Served(r) ==
    IF Authorize(r) # "serve" THEN {Authorize(r)}
    ELSE
    CASE r.op = "read" -> {ReadAnswer(r)}
      [] r.op = "replace" -> {PutSmallAnswer(r)}
      [] r.op = "pack" -> PutPackAnswers
      [] r.op = "list" -> ListAnswers
      [] r.op = "check" -> {UsageAnswer}
      [] r.op = "delete" -> {DeleteAnswer}

\* What serving the request changes: the object of a matching small write.
Apply(r, ans) ==
    /\ obj' = IF r.op = "replace" /\ ans = "ok"
              THEN [obj EXCEPT ![r.tok.id] = @ + 1] ELSE obj
    /\ landed' = IF Authorize(r) = "serve" THEN landed \cup {r.tok.id} ELSE landed

Serve(c) ==
    /\ At(c, "sent")
    /\ \E ans \in Served(call[c]) :
          LET r == call[c]
              page == r.op = "list" /\ Authorize(r) = "serve"
          IN  /\ Apply(r, ans)
              /\ refused' = IF Authorize(r) = "401" THEN refused \cup {r.tok} ELSE refused
              /\ Put(c, Answered([r EXCEPT
                        !.ans = IF page THEN "page" ELSE ans,
                        !.cursor = IF page THEN ans ELSE None,
                        !.etag = IF r.op \in {"read", "replace"} /\ ans = "ok"
                                 THEN obj'[r.tok.id] ELSE @,
                        !.hit = IF Authorize(r) = "serve" THEN r.tok.id ELSE None,
                        !.applied = IF r.op = "replace" /\ ans = "ok" THEN @ + 1 ELSE @]))
    /\ UNCHANGED <<remote, live, source, minting, issued, phase, etag, late, calls, faults, got, started>>

\* A 5xx or 429 of the gateway, which served nothing.
Busy(c) ==
    /\ At(c, "sent") /\ Fault
    /\ \E ans \in {"5xx", "429"} : Put(c, Answered([call[c] EXCEPT !.ans = ans]))
    /\ UNCHANGED <<remote, obj, live, source, minting, issued, phase, etag, late, calls, ghosts>>

\* No answer: the request was lost, its answer was, or it is still under way.
Lose(c) ==
    /\ At(c, "sent") /\ Fault
    /\ Put(c, Answered([call[c] EXCEPT !.ans = "lost"]))
    /\ late' = IF call[c].op = "replace" THEN late \cup {call[c]} ELSE late
    /\ UNCHANGED <<remote, obj, live, source, minting, issued, phase, etag, calls, ghosts>>

\* A write under way lands after all, or never does; its caller may have returned.
Land(r) ==
    /\ late' = late \ {r}
    /\ \E ans \in Served(r) :
          /\ Apply(r, ans)
          /\ call' = [c \in Callers |->
                         IF ans = "ok" /\ call[c].pc # "idle" /\ call[c].id = r.id
                         THEN [call[c] EXCEPT !.applied = @ + 1] ELSE call[c]]
    /\ UNCHANGED <<remote, live, source, minting, issued, phase, etag, calls, faults, got, started, refused>>

-----------------------------------------------------------------------------
(* Around the process.                                                     *)

\* The held token's renewal time comes; a clock set back makes it usable again.
Clock ==
    /\ source.token # NoToken /\ kind = "login" /\ Fault
    /\ source' = [source EXCEPT !.due = ~@]
    /\ UNCHANGED <<remote, obj, live, minting, issued, phase, etag, call, late, calls, ghosts>>

\* A token in use expires, or is revoked on the site.
Expire(t) ==
    /\ t = source.token \/ \E c \in Callers : call[c].tok = t
    /\ Fault /\ live' = live \ {t}
    /\ UNCHANGED <<remote, obj, source, minting, issued, phase, etag, call, late, calls, ghosts>>

RevokeKey ==
    /\ kind = "login" /\ keyOK /\ Fault /\ keyOK' = FALSE
    /\ UNCHANGED <<reach, exists, readOnly, kind, obj, live, source, minting, issued, phase, etag,
                   call, late, calls, ghosts>>

\* The space is deleted, and another may get its name; or the name is moved alone.
Rename ==
    /\ Fault /\ reach' \in (Ids \cup {None}) \ {reach, First}
    /\ exists' \in {exists, exists \ {reach}}
    /\ UNCHANGED <<keyOK, readOnly, kind, obj, live, source, minting, issued, phase, etag, call,
                   late, calls, ghosts>>

Steps(c) ==
    \/ CheckServer(c) \/ Token(c) \/ Acquire(c) \/ Mint(c) \/ MintRefused(c) \/ Serve(c)
    \/ Unauthorized(c) \/ Return(c)

Next ==
    \/ \E c \in Callers : Begin(c) \/ Steps(c) \/ GiveUp(c) \/ MintFailed(c) \/ Busy(c) \/ Lose(c)
    \/ \E r \in late : Land(r)
    \/ \E t \in live : Expire(t)
    \/ Clock \/ RevokeKey \/ Rename

\* Some goroutine that can go on does: the channel is handed on, and a request is
\* answered or its failure reported.
Fairness == WF_vars(\E c \in Callers : Steps(c))

Spec == Init /\ [][Next]_vars /\ Fairness

-----------------------------------------------------------------------------
(* Properties.                                                             *)

\* What a call under way is made of.
Tokens == [n : Nat, id : Ids \cup {None}]
Pcs == {"server", "token", "waiting", "minting", "sent", "refused", "done"}
Answers ==
    {"none", "401", "ok", "page", "5xx", "lost", "507", "429", "403", "no_object", "no_space", "412"}
Results ==
    {"none", "ok", "absent", "precondition", "full", "limited", "denied", "renewed", "transport",
     "incompatible"}
CallRecords ==
    [pc : Pcs, op : Idempotent \cup Streamed \cup {"replace"}, id : Nat, tok : Tokens, n : Nat,
     replay : BOOLEAN, etag : Nat, ans : Answers, cursor : Cursors \cup {None}, seen : SUBSET Cursors,
     left : Nat, applied : Nat, hit : Ids \cup {None}, refusals : Nat, result : Results]

\* mintedTokens: the minting channel is held by the caller that mints, and the held
\* token is one the site issued.
TypeOK ==
    /\ reach \in Ids \cup {None} /\ exists \subseteq Ids /\ obj \in [Ids -> Nat]
    /\ keyOK \in BOOLEAN /\ readOnly \in BOOLEAN /\ kind \in {"login", "fixed"}
    /\ issued \in Nat /\ live \subseteq [n : 1 .. issued, id : Ids]
    /\ source \in [token : [n : 0 .. issued, id : Ids \cup {None}], due : BOOLEAN,
                   spaceID : Ids \cup {None}, replaced : BOOLEAN]
    /\ minting \in Callers \cup {Nobody}
    /\ call \in [Callers -> CallRecords \cup {IdleCall}] /\ late \subseteq CallRecords
    /\ \A c \in Callers : At(c, "minting") <=> minting = c
    /\ etag \in Nat /\ calls \in 0 .. MaxCalls /\ faults \in 0 .. MaxFaults
    /\ got \in Tokens /\ started \in Ids \cup {None} /\ landed \subseteq Ids /\ refused \subseteq Tokens

\* bind: when the first mint names the space, every request of the process is served
\* by that space, a write that lands late too, though tokens are renewed and the name
\* comes to mean another space.
OneSpace == started # None => landed \subseteq {started}

\* statusError: a read that reports an absent object reached a space that exists and
\* had no such object: a space that is gone never looks like an empty notebook.
AbsentIsTrue ==
    \A c \in Callers :
        (At(c, "done") /\ call[c].result = "absent") =>
            /\ call[c].op = "read" /\ call[c].hit \in landed
            /\ call[c].ans = "no_object"

\* putSmall: a conditional write is applied at most once, and its caller is told of a
\* lost race only when its own write was not applied.
LostRaceIsReal ==
    \A c \in Callers :
        call[c].op = "replace" =>
            /\ call[c].applied <= 1
            /\ At(c, "done") /\ call[c].result = "precondition" => call[c].applied = 0
            /\ At(c, "done") /\ call[c].result = "ok" => call[c].applied = 1

\* send and Token: a caller is told its access was denied only when it was: the key,
\* the space or the grant is really gone or read-only, the token was a fixed one, or
\* two tokens were refused for one request.  A token that expired on the way is not
\* a denial.
DenialIsReal ==
    \A c \in Callers :
        (At(c, "done") /\ call[c].result = "denied") =>
            \/ ~keyOK \/ readOnly \/ source.replaced \/ reach # First
            \/ call[c].refusals = 2
            \/ kind = "fixed" /\ call[c].refusals = 1

\* The answers the callers of the store act upon mean what they say: an absent
\* object, a lost race and a denial (statusError, putSmall, send).
AnswersAreTrue == AbsentIsTrue /\ LostRaceIsReal /\ DenialIsReal

\* Rejected and current: a token is minted only when there is none, the last one was
\* itself refused or is due; the late refusal of an older token costs no mint.
MintsAreNeeded ==
    [][\A c \in Callers :
          (~At(c, "minting") /\ call'[c].pc = "minting") =>
              source.due \/ got \in refused \cup {NoToken}]_vars

\* Every call returns: retries and pages are bounded, and a failed mint hands the
\* channel on to those who wait for it.  A behaviour has at most MaxCalls calls, so
\* they all return if the process is without one again and again.
CallsReturn == []<>(\A c \in Callers : At(c, "idle"))
=============================================================================
