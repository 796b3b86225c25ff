------------------------------- MODULE SignIn -------------------------------
(***************************************************************************)
(* The device login of slivingdoc and the credentials file it shares:      *)
(* `login` and `logout` commands, and serve processes that sign in when a  *)
(* tool is first called (src/internal/app/login.go, signin.go), over the   *)
(* credentials file and its two locks (src/internal/credentials) and the   *)
(* account site (src/internal/sitelogin).                                  *)
(*                                                                         *)
(* A key is the index of keys; 0 is no key.  A device code is a number in  *)
(* the order the site opened them; 0 is no code.  Every login here is for  *)
(* one storage endpoint, so a login's ID is its site and there is one      *)
(* default space.                                                          *)
(***************************************************************************)
EXTENDS Naturals, Sequences, FiniteSets

CONSTANTS
    Servers,       \* serve processes that started without a usable login
    Terminals,     \* `slivingdoc login` commands, each run once
    Outs,          \* `slivingdoc logout` commands, each run once
    Accounts,      \* people who may approve a code
    Sites,         \* account sites, all issuing keys for the one endpoint
    Spaces,        \* names of hosted spaces
    Notes,         \* signInSpace, the space a first sign-in creates
    NoSpace,       \* the empty name
    Nobody,        \* no process, as the holder of a lock
    SiteOf,        \* the site each login talks to
    Asked,         \* --space of each login, and the space a server names
    Consent,       \* how each login answers: "ask", "force" or "none"
    Polls,         \* signInWait / signInPoll of a waiting tool call
    MaxCodes,      \* bound: device approvals the site opens
    Approvers,     \* who may approve the code of each login
    FirstReach,    \* what the accounts may reach at first
    MaxCommands,   \* bound: login and logout commands and tool commands
    MaxFaults      \* bound: processes that die and stored keys that expire

\* The background login of server s is a process of its own; it has no terminal.
Back(s) == <<s, "login">>
Flows == Terminals \cup {Back(s) : s \in Servers}
Editors == Flows \cup Servers \cup Outs

ASSUME SignInAssumption ==
    /\ Servers \cap Flows = {} /\ Servers \cap Outs = {} /\ Flows \cap Outs = {}
    /\ \A s \in Servers : Back(s) \notin Terminals
    /\ Notes \in Spaces /\ NoSpace \notin Spaces /\ Nobody \notin Editors
    /\ SiteOf \in [Flows -> Sites]
    /\ Asked \in [Flows -> Spaces \cup {NoSpace}]
    /\ Consent \in [Flows -> {"ask", "force", "none"}]
    /\ \A s \in Servers : Consent[Back(s)] = "none"
    /\ {Polls, MaxCodes, MaxCommands, MaxFaults} \subseteq Nat
    /\ Approvers \in [Flows -> SUBSET Accounts]
    /\ FirstReach \subseteq [Accounts -> SUBSET Spaces]

VARIABLES
    keys,      \* issued keys at their sites: site, account, state
    reach,     \* the spaces each account reaches
    codes,     \* how many device approvals were opened
    file,      \* the credentials file: a key per site, and the default space
    lock,      \* the holder of credentials.lock
    edit,      \* an editor's turn at the file: waiting, or the set it loaded
    signer,    \* the holder of signin.lock
    record,    \* the code signin.json shows; 0 for no file
    flow,      \* the logins that run
    call,      \* the tool call each server answers
    commands,  \* how many commands and tool commands began
    out,       \* the logouts that run
    told,      \* keys a person was told to revoke on the Tokens page
    dropped,   \* keys a process held when it died
    deadCodes, \* codes nobody polls any more because their process died
    half,      \* keys a logout left in the file although the site revoked them:
               \* the removal failed, or the answer to the revocation was lost
    faults

vars == <<keys, reach, codes, file, lock, edit, signer, record, flow, call, commands, out,
          told, dropped, deadCodes, half, faults>>
site == <<keys, reach>>
ghosts == <<told, dropped, deadCodes, half, faults>>

Files == [logins : [Sites -> Nat], deflt : Spaces \cup {NoSpace}]
EmptyFile == [logins |-> [x \in Sites |-> 0], deflt |-> NoSpace]

NoFlow == [pc |-> "idle", code |-> 0, key |-> 0, lost |-> FALSE, spaces |-> {},
           agreed |-> FALSE, old |-> 0, deflt |-> NoSpace]
NoCall == [pc |-> "idle", polls |-> 0, page |-> 0, key |-> 0, space |-> NoSpace, ready |-> 0]
NoOut == [pc |-> "idle", todo |-> {}, gone |-> {}]
Out == [NoOut EXCEPT !.pc = "ended"]
NoEdit == [pc |-> "none", snap |-> EmptyFile]
Waiting == [pc |-> "waits", snap |-> EmptyFile]

Init ==
    /\ keys = <<>>
    /\ reach \in FirstReach
    /\ codes = 0 /\ file = EmptyFile
    /\ lock = Nobody /\ edit = [p \in Editors |-> NoEdit]
    /\ signer = Nobody /\ record = 0
    /\ flow = [f \in Flows |-> NoFlow]
    /\ call = [s \in Servers |-> NoCall] /\ commands = 0
    /\ out = [o \in Outs |-> NoOut]
    /\ told = {} /\ dropped = {} /\ deadCodes = {} /\ half = {} /\ faults = 0

-----------------------------------------------------------------------------
(* The site: a key is issued by the poll that claims an approved code, at  *)
(* most once per code; a revoked or expired key is refused everywhere, and *)
(* revoking a key the site no longer knows counts as done.                 *)
Issue(f, a) == Append(keys, [site |-> SiteOf[f], account |-> a, state |-> "live"])
Fresh == Len(keys) + 1
Claimed(f) == flow[f].lost /\ flow[f].key # 0
Live(k) == k # 0 /\ keys[k].state = "live"
Withdraw(k) == IF Live(k) THEN [keys EXCEPT ![k].state = "revoked"] ELSE keys
Reaches(k) == reach[keys[k].account]

\* A stored key's own lifetime ends; the file holds its expiry.
Expire(k) ==
    /\ Live(k) /\ \E x \in Sites : file.logins[x] = k
    /\ faults < MaxFaults /\ faults' = faults + 1
    /\ keys' = [keys EXCEPT ![k].state = "expired"]
    /\ UNCHANGED <<reach, codes, file, lock, edit, signer, record, flow, call, commands, out, told,
                   dropped, deadCodes, half>>

-----------------------------------------------------------------------------
(* The credentials lock: an exclusive flock, waited for until the context  *)
(* ends; the file is loaded under it and saved by one rename.              *)
Enter(p) ==
    /\ edit[p].pc = "waits" /\ lock = Nobody
    /\ lock' = p
    /\ edit' = [edit EXCEPT ![p] = [pc |-> "read", snap |-> file]]
    /\ UNCHANGED <<keys, reach, codes, file, signer, record, flow, call, commands, out, ghosts>>

Held(p) == edit[p].pc = "read"
Leave(p) == lock' = Nobody /\ edit' = [edit EXCEPT ![p] = NoEdit]

-----------------------------------------------------------------------------
(* Login.Run.  To(f, pc) is f's next stage.                                *)
To(f, pc) == flow' = [flow EXCEPT ![f].pc = pc]
Counted == commands < MaxCommands /\ commands' = commands + 1
Begin(f) == [NoFlow EXCEPT !.pc = "starting"]

LoginCommand(f) ==
    /\ f \in Terminals /\ flow[f].pc = "idle" /\ codes < MaxCodes
    /\ Counted
    /\ flow' = [flow EXCEPT ![f] = Begin(f)]
    /\ UNCHANGED <<site, codes, file, lock, edit, signer, record, call, out, ghosts>>

\* The site opens an approval; a sign-in publishes its page for the other servers.
Started(f) ==
    /\ flow[f].pc = "starting" /\ codes < MaxCodes
    /\ codes' = codes + 1
    /\ flow' = [flow EXCEPT ![f].pc = "polling", ![f].code = codes + 1]
    /\ record' = IF signer = f THEN codes + 1 ELSE record
    /\ UNCHANGED <<site, file, lock, edit, signer, call, commands, out, ghosts>>

\* What is left once a login is over: a sign-in removes its page and its lock.
MutantFinish(f) ==
    /\ flow' = [flow EXCEPT ![f] = [NoFlow EXCEPT !.pc = "ended"]]
    /\ signer' = IF signer = f THEN Nobody ELSE signer
    /\ record' = record
Finish(f) ==
    /\ flow' = [flow EXCEPT ![f] = [NoFlow EXCEPT !.pc = "ended"]]
    /\ signer' = IF signer = f THEN Nobody ELSE signer
    /\ record' = IF signer = f THEN 0 ELSE record

StartRefused(f) ==
    /\ flow[f].pc = "starting"
    /\ Finish(f)
    /\ UNCHANGED <<site, codes, file, lock, edit, call, commands, out, ghosts>>

-----------------------------------------------------------------------------
(* Client.Wait.  authorization_pending and slow_down change nothing here.  *)
PollIssued(f, a) ==
    /\ flow[f].pc = "polling" /\ ~Claimed(f)
    /\ keys' = Issue(f, a)
    /\ flow' = [flow EXCEPT ![f].pc = "issued", ![f].key = Fresh]
    /\ UNCHANGED <<reach, codes, file, lock, edit, signer, record, call, commands, out, ghosts>>

\* The answer breaks the contract but holds a sendable key.
PollRejected(f, a) ==
    /\ flow[f].pc = "polling" /\ ~Claimed(f)
    /\ keys' = Issue(f, a)
    /\ flow' = [flow EXCEPT ![f].pc = "discard", ![f].key = Fresh]
    /\ UNCHANGED <<reach, codes, file, lock, edit, signer, record, call, commands, out, ghosts>>

\* The answer breaks off, cannot be decoded, or the login is stopped while the
\* poll is in flight: the error carries TokenHint.
PollBroken(f, a) ==
    /\ flow[f].pc = "polling" /\ ~Claimed(f)
    /\ keys' = Issue(f, a)
    /\ told' = told \cup {Fresh}
    /\ Finish(f)
    /\ UNCHANGED <<reach, codes, file, lock, edit, call, commands, out, dropped, deadCodes, half, faults>>

\* No answer, or a 5xx: retried, although the site may have issued the key to it.
PollLost(f) ==
    /\ flow[f].pc = "polling" /\ ~flow[f].lost
    /\ \/ /\ flow' = [flow EXCEPT ![f].lost = TRUE]
          /\ UNCHANGED keys
       \/ \E a \in Approvers[f] :
            /\ keys' = Issue(f, a)
            /\ flow' = [flow EXCEPT ![f].lost = TRUE, ![f].key = Fresh]
    /\ UNCHANGED <<reach, codes, file, lock, edit, signer, record, call, commands, out, ghosts>>

\* access_denied: the person said no, so no poll claimed the code.
PollDenied(f) ==
    /\ flow[f].pc = "polling" /\ ~Claimed(f)
    /\ Finish(f)
    /\ UNCHANGED <<site, codes, file, lock, edit, call, commands, out, ghosts>>

\* The hint of afterLoss: once a poll went unanswered the end of the wait names it.
MutantHint(f) == {}
Hint(f) == IF flow[f].lost THEN {flow[f].key} \ {0} ELSE {}

\* The deadline, expired_token, or a stop during the sleep between two polls.
PollsEnd(f) ==
    /\ flow[f].pc = "polling"
    /\ told' = told \cup Hint(f)
    /\ Finish(f)
    /\ UNCHANGED <<site, codes, file, lock, edit, call, commands, out, dropped, deadCodes, half, faults>>

-----------------------------------------------------------------------------
(* From the issued key to the stored login.                                *)
\* revoke, best effort: a refusal and a lost answer both tell the person, though
\* the site may have applied the revocation whose answer was lost.
MayRevoke(k) == keys' \in {keys, Withdraw(k)}

Discarded(f) ==
    /\ flow[f].pc = "discard"
    /\ \/ keys' = Withdraw(flow[f].key) /\ UNCHANGED told
       \/ told' = told \cup {flow[f].key} /\ MayRevoke(flow[f].key)
    /\ Finish(f)
    /\ UNCHANGED <<reach, codes, file, lock, edit, call, commands, out, dropped, deadCodes, half, faults>>

\* accept, Spaces, --space, approvedBy, confirm and createFirst.  The listing is of
\* its moment: the account may gain a space before the login is stored.  A sign-in
\* whose account has no space creates Notes; a failed create is only told.
Created(f, k) == f \notin Terminals /\ Reaches(k) = {}
Listed(f) ==
    LET k == flow[f].key
        next(spaces) == flow' = [flow EXCEPT ![f].pc = "storing", ![f].spaces = spaces,
                                             ![f].agreed = Consent[f] # "none"]
    IN /\ flow[f].pc = "issued" /\ Live(k)
       /\ Asked[f] # NoSpace => Asked[f] \in Reaches(k)
       /\ \/ /\ Created(f, k)
             /\ reach' = [reach EXCEPT ![keys[k].account] = {Notes}]
             /\ next({Notes})
          \/ next(Reaches(k)) /\ UNCHANGED reach
       /\ edit' = [edit EXCEPT ![f] = Waiting]
       /\ UNCHANGED <<keys, codes, file, lock, signer, record, call, commands, out, ghosts>>

\* A key outside what was asked for, a failed listing, a --space it does not reach,
\* or any other answer than yes at the prompt.
NotAccepted(f) ==
    /\ flow[f].pc = "issued"
    /\ To(f, "discard")
    /\ UNCHANGED <<site, codes, file, lock, edit, signer, record, call, commands, out, ghosts>>

\* Login.store's refusals, over the set loaded under the lock.
OtherSite(f) == \E x \in Sites : x # SiteOf[f] /\ edit[f].snap.logins[x] # 0
Old(f) == edit[f].snap.logins[SiteOf[f]]
OtherAccount(f) == Old(f) # 0 /\ keys[Old(f)].account # keys[flow[f].key].account
MutantMayStore(f) == OtherAccount(f) => flow[f].agreed
MutantMayStoreAny(f) == ~OtherSite(f)
MayStore(f) == ~OtherSite(f) /\ (OtherAccount(f) => flow[f].agreed)

chooseDefault(asked, spaces, prior) ==
    IF asked # NoSpace THEN asked
    ELSE IF Cardinality(spaces) = 1 THEN CHOOSE n \in spaces : TRUE
    ELSE IF prior \in spaces THEN prior
    ELSE NoSpace

Stored(f) ==
    /\ flow[f].pc = "storing" /\ Held(f) /\ MayStore(f)
    /\ LET deflt == chooseDefault(Asked[f], flow[f].spaces, edit[f].snap.deflt)
       IN /\ file' = [logins |-> [edit[f].snap.logins EXCEPT ![SiteOf[f]] = flow[f].key],
                      deflt |-> deflt]
          /\ flow' = [flow EXCEPT ![f].pc = "stored", ![f].old = Old(f), ![f].deflt = deflt]
    /\ Leave(f)
    /\ UNCHANGED <<site, codes, signer, record, call, commands, out, ghosts>>

\* A refusal, or a lock or a save that fails: nothing was stored.
MutantNotStored(f) ==
    /\ flow[f].pc = "storing" /\ Held(f) /\ MayStore(f)
    /\ file' = [edit[f].snap EXCEPT !.logins[SiteOf[f]] = flow[f].key]
    /\ Leave(f)
    /\ To(f, "discard")
    /\ UNCHANGED <<site, codes, signer, record, call, commands, out, ghosts>>
NotStored(f) ==
    /\ flow[f].pc = "storing"
    /\ \/ edit[f].pc = "waits" /\ edit' = [edit EXCEPT ![f] = NoEdit] /\ UNCHANGED lock
       \/ Held(f) /\ Leave(f)
    /\ To(f, "discard")
    /\ UNCHANGED <<site, codes, file, signer, record, call, commands, out, ghosts>>

\* revokeReplaced: the same account's earlier key, best effort; another's is named.
\* Then the space picker of a terminal, when there are several spaces and no default.
Offers(f) ==
    Consent[f] = "ask" /\ flow[f].deflt = NoSpace /\ Cardinality(flow[f].spaces) > 1

RevokeReplaced(f) ==
    /\ flow[f].pc = "stored"
    /\ LET old == flow[f].old
           mine == old # 0 /\ keys[old].account = keys[flow[f].key].account
       IN \/ old = 0 /\ UNCHANGED <<keys, told>>
          \/ mine /\ keys' = Withdraw(old) /\ UNCHANGED told
          \/ mine /\ told' = told \cup {old} /\ MayRevoke(old)
          \/ old # 0 /\ ~mine /\ told' = told \cup {old} /\ UNCHANGED keys
    /\ \/ /\ Offers(f) /\ flow' = [flow EXCEPT ![f].pc = "picked", ![f].old = 0]
          /\ edit' = [edit EXCEPT ![f] = Waiting]
          /\ UNCHANGED <<signer, record>>
       \/ Finish(f) /\ UNCHANGED edit
    /\ UNCHANGED <<reach, codes, file, lock, call, commands, out, dropped, deadCodes, half, faults>>

\* storeDefault: the default is set only for the login whose spaces were listed.
StillStored(p, k) == \E x \in Sites : edit[p].snap.logins[x] = k
SetDefault(p, n) == file' = [edit[p].snap EXCEPT !.deflt = n]

Picked(f) ==
    /\ flow[f].pc = "picked"
    /\ \/ /\ Held(f) /\ StillStored(f, flow[f].key)
          /\ \E n \in flow[f].spaces : SetDefault(f, n)
          /\ Leave(f)
       \/ Held(f) /\ Leave(f) /\ UNCHANGED file
       \/ edit[f].pc = "waits" /\ edit' = [edit EXCEPT ![f] = NoEdit] /\ UNCHANGED <<file, lock>>
    /\ Finish(f)
    /\ UNCHANGED <<site, codes, call, commands, out, ghosts>>

-----------------------------------------------------------------------------
(* signIn.await: a tool call of a server that has no store yet.  build     *)
(* resolves the file again; the space is the one the server names, else    *)
(* the login's default.                                                    *)
Answer(s) == call' = [call EXCEPT ![s] = [NoCall EXCEPT !.ready = call[s].ready]]
Stage(s, pc) == call' = [call EXCEPT ![s].pc = pc]

Login == LET at == {x \in Sites : file.logins[x] # 0}
         IN IF at = {} THEN 0 ELSE file.logins[CHOOSE x \in at : TRUE]
SpaceFor(s) == IF Asked[Back(s)] # NoSpace THEN Asked[Back(s)] ELSE file.deflt
NeedsSignIn == Login # 0 => keys[Login].state = "expired"
NoDefault(s) == ~NeedsSignIn /\ SpaceFor(s) = NoSpace
Minted(s) == ~NeedsSignIn /\ Live(Login) /\ SpaceFor(s) \in Reaches(Login)

ToolCall(s) ==
    /\ call[s].pc = "idle" /\ call[s].ready = 0
    /\ Counted
    /\ call' = [call EXCEPT ![s] = [NoCall EXCEPT !.pc = "build", !.polls = Polls]]
    /\ UNCHANGED <<site, codes, file, lock, edit, signer, record, flow, out, ghosts>>

Built(s) ==
    /\ call[s].pc \in {"build", "rebuild"} /\ Minted(s)
    /\ call' = [call EXCEPT ![s] = [NoCall EXCEPT !.ready = Login]]
    /\ UNCHANGED <<site, codes, file, lock, edit, signer, record, flow, commands, out, ghosts>>

\* setupRequired: a mint the site refuses or never answers, or a second resolution
\* that still finds no space.
SetupRequired(s) ==
    /\ \/ call[s].pc = "build" /\ ~NeedsSignIn /\ ~NoDefault(s)
       \/ call[s].pc = "rebuild"
    /\ Answer(s)
    /\ UNCHANGED <<site, codes, file, lock, edit, signer, record, flow, commands, out, ghosts>>

\* adoptDefault: the only space, else Notes, else Notes created; several spaces
\* without it are left to the person, and a refused listing or create is answered.
Adopting(s, n) ==
    /\ call' = [call EXCEPT ![s].pc = "adopt", ![s].key = Login, ![s].space = n]
    /\ edit' = [edit EXCEPT ![s] = Waiting]

Adopt(s) ==
    /\ call[s].pc = "build" /\ NoDefault(s)
    /\ LET spaces == Reaches(Login)
           only == chooseDefault(NoSpace, spaces, NoSpace)
           name == IF only = NoSpace /\ Notes \in spaces THEN Notes ELSE only
       IN \/ /\ Live(Login) /\ spaces = {}
             /\ reach' = [reach EXCEPT ![keys[Login].account] = {Notes}]
             /\ Adopting(s, Notes)
          \/ /\ Live(Login) /\ name # NoSpace
             /\ Adopting(s, name) /\ UNCHANGED reach
          \/ Answer(s) /\ UNCHANGED <<edit, reach>>
    /\ UNCHANGED <<keys, codes, file, lock, signer, record, flow, commands, out, ghosts>>

Adopted(s) ==
    /\ call[s].pc = "adopt"
    /\ \/ /\ Held(s) /\ StillStored(s, call[s].key)
          /\ SetDefault(s, call[s].space)
          /\ Leave(s) /\ Stage(s, "rebuild")
       \/ /\ Held(s) /\ Leave(s)
          /\ Answer(s) /\ UNCHANGED file
       \/ /\ edit[s].pc = "waits" /\ edit' = [edit EXCEPT ![s] = NoEdit]
          /\ Answer(s) /\ UNCHANGED <<lock, file>>
    /\ UNCHANGED <<site, codes, signer, record, flow, commands, out, ghosts>>

\* ended: this server's own login ended and no usable login is stored; why is told.
Ended(s) ==
    /\ call[s].pc = "build" /\ NeedsSignIn
    /\ flow[Back(s)].pc = "ended"
    /\ flow' = [flow EXCEPT ![Back(s)] = NoFlow]
    /\ Answer(s)
    /\ UNCHANGED <<site, codes, file, lock, edit, signer, record, commands, out, ghosts>>

\* pending: this server's own page, else a sign-in it starts, else the page the
\* holder of the sign-in lock recorded.  The read of the file that found no login
\* was before the lock is tried.
Looks(s) ==
    /\ call[s].pc = "build" /\ NeedsSignIn
    /\ flow[Back(s)].pc # "ended"
    /\ Stage(s, "pending")
    /\ UNCHANGED <<site, codes, file, lock, edit, signer, record, flow, commands, out, ghosts>>

\* signInRequired once the wait is over, else one poll later build again.
Shown(s, page) ==
    call' = [call EXCEPT ![s] = IF call[s].polls = 0
                                THEN [NoCall EXCEPT !.ready = call[s].ready, !.page = page]
                                ELSE [call[s] EXCEPT !.pc = "build", !.polls = @ - 1, !.page = page]]

Pending(s) ==
    /\ call[s].pc = "pending"
    /\ \/ /\ flow[Back(s)].pc # "idle"
          /\ Shown(s, flow[Back(s)].code) /\ UNCHANGED <<signer, flow>>
       \/ /\ flow[Back(s)].pc = "idle" /\ signer = Nobody /\ codes < MaxCodes
          /\ signer' = Back(s)
          /\ flow' = [flow EXCEPT ![Back(s)] = Begin(Back(s))]
          /\ Shown(s, 0)
       \/ /\ flow[Back(s)].pc = "idle" /\ (signer # Nobody \/ codes = MaxCodes)
          /\ Shown(s, record) /\ UNCHANGED <<signer, flow>>
    /\ UNCHANGED <<site, codes, file, lock, edit, record, commands, out, ghosts>>

-----------------------------------------------------------------------------
(* Logout.Run: revoke each chosen key, then remove the revoked logins.     *)
LogoutCommand(o) ==
    /\ out[o].pc = "idle" /\ Counted
    /\ LET at == {x \in Sites : file.logins[x] # 0}
       IN \E chosen \in SUBSET at \ {{}} :
            out' = [out EXCEPT ![o] = [pc |-> "revoking", todo |-> {file.logins[x] : x \in chosen},
                                       gone |-> {}]]
    /\ UNCHANGED <<site, codes, file, lock, edit, signer, record, flow, call, ghosts>>

\* The site answers that the key is revoked; or refuses, or is not reached; or
\* applies the revocation and its answer is lost.  Only the first removes the login
\* later: the other two leave it stored, so the logout can be repeated.
Revokes(o) ==
    /\ out[o].pc = "revoking"
    /\ \E k \in out[o].todo :
         \/ /\ keys' = Withdraw(k)
            /\ out' = [out EXCEPT ![o].todo = @ \ {k}, ![o].gone = @ \cup {k}]
            /\ UNCHANGED half
         \/ /\ out' = [out EXCEPT ![o].todo = @ \ {k}]
            /\ UNCHANGED <<keys, half>>
         \/ /\ keys' = Withdraw(k)
            /\ out' = [out EXCEPT ![o].todo = @ \ {k}]
            /\ half' = half \cup {k}
    /\ UNCHANGED <<reach, codes, file, lock, edit, signer, record, flow, call, commands,
                   told, dropped, deadCodes, faults>>

Revoked(o) ==
    /\ out[o].pc = "revoking" /\ out[o].todo = {}
    /\ IF out[o].gone = {}
       THEN out' = [out EXCEPT ![o] = Out] /\ UNCHANGED edit
       ELSE /\ out' = [out EXCEPT ![o].pc = "removing"]
            /\ edit' = [edit EXCEPT ![o] = Waiting]
    /\ UNCHANGED <<site, codes, file, lock, signer, record, flow, call, commands, ghosts>>

\* Only an entry whose key is the one just revoked is removed; the default goes
\* with the endpoint's last login.
Removed(o, set) ==
    LET logins == [x \in Sites |-> IF set.logins[x] \in out[o].gone THEN 0 ELSE set.logins[x]]
    IN [logins |-> logins,
        deflt |-> IF \A x \in Sites : logins[x] = 0 THEN NoSpace ELSE set.deflt]

Removes(o) ==
    /\ out[o].pc = "removing"
    /\ \/ /\ Held(o)
          /\ file' = Removed(o, edit[o].snap) /\ Leave(o)
          /\ UNCHANGED half
       \/ /\ Held(o) /\ Leave(o)
          /\ half' = half \cup out[o].gone /\ UNCHANGED file
       \/ /\ edit[o].pc = "waits" /\ edit' = [edit EXCEPT ![o] = NoEdit]
          /\ half' = half \cup out[o].gone /\ UNCHANGED <<file, lock>>
    /\ out' = [out EXCEPT ![o] = Out]
    /\ UNCHANGED <<site, codes, signer, record, flow, call, commands, told, dropped, deadCodes, faults>>

-----------------------------------------------------------------------------
(* A process dies: its locks go with it, signin.json and the file stay.    *)
Running(f) == flow[f].pc \notin {"idle", "ended"}
FlowKeys(f) == IF Running(f) THEN {flow[f].key, flow[f].old} \ {0} ELSE {}

Dies(ps) ==
    /\ faults < MaxFaults /\ faults' = faults + 1
    /\ lock' = IF lock \in ps THEN Nobody ELSE lock
    /\ edit' = [p \in Editors |-> IF p \in ps THEN NoEdit ELSE edit[p]]
    /\ signer' = IF signer \in ps THEN Nobody ELSE signer
    /\ flow' = [f \in Flows |-> IF f \notin ps THEN flow[f]
                             ELSE IF f \in Terminals THEN [NoFlow EXCEPT !.pc = "ended"]
                             ELSE NoFlow]
    /\ dropped' = dropped \cup UNION {FlowKeys(f) : f \in ps \cap Flows}
    /\ deadCodes' = deadCodes \cup {flow[f].code : f \in ps \cap Flows}

CrashLogin(f) ==
    /\ f \in Terminals /\ Running(f)
    /\ Dies({f})
    /\ UNCHANGED <<site, codes, file, record, call, commands, out, told, half>>

CrashServer(s) ==
    /\ Running(Back(s)) \/ call[s].pc # "idle"
    /\ Dies({s, Back(s)})
    /\ call' = [call EXCEPT ![s] = NoCall]
    /\ UNCHANGED <<site, codes, file, record, commands, out, told, half>>

CrashLogout(o) ==
    /\ out[o].pc \notin {"idle", "ended"}
    /\ Dies({o})
    /\ half' = half \cup out[o].gone
    /\ out' = [out EXCEPT ![o] = Out]
    /\ UNCHANGED <<site, codes, file, record, call, commands, told>>

-----------------------------------------------------------------------------
FlowStep(f) ==
    \/ Started(f) \/ StartRefused(f) \/ PollLost(f) \/ PollDenied(f) \/ PollsEnd(f)
    \/ \E a \in Approvers[f] : PollIssued(f, a) \/ PollRejected(f, a) \/ PollBroken(f, a)
    \/ Discarded(f) \/ Listed(f) \/ NotAccepted(f)
    \/ Stored(f) \/ NotStored(f) \/ RevokeReplaced(f) \/ Picked(f)

CallStep(s) ==
    \/ Built(s) \/ SetupRequired(s) \/ Adopt(s) \/ Adopted(s) \/ Ended(s) \/ Looks(s)
    \/ Pending(s)

OutStep(o) == Revokes(o) \/ Revoked(o) \/ Removes(o)

Next ==
    \/ \E f \in Flows : LoginCommand(f) \/ FlowStep(f) \/ CrashLogin(f)
    \/ \E s \in Servers : ToolCall(s) \/ CallStep(s) \/ CrashServer(s)
    \/ \E o \in Outs : LogoutCommand(o) \/ OutStep(o) \/ CrashLogout(o)
    \/ \E p \in Editors : Enter(p)
    \/ \E k \in 1 .. Len(keys) : Expire(k)

Spec == Init /\ [][Next]_vars

-----------------------------------------------------------------------------
(* Every variable has its type.                                           *)
KeyRecords == [site : Sites, account : Accounts, state : {"live", "revoked", "expired"}]
FlowRecords ==
    [pc : {"idle", "starting", "polling", "issued", "discard", "storing", "stored", "picked", "ended"},
     code : Nat, key : Nat, lost : BOOLEAN, spaces : SUBSET Spaces, agreed : BOOLEAN,
     old : Nat, deflt : Spaces \cup {NoSpace}]
CallRecords ==
    [pc : {"idle", "build", "rebuild", "adopt", "pending"}, polls : Nat, page : Nat,
     key : Nat, space : Spaces \cup {NoSpace}, ready : Nat]
OutRecords == [pc : {"idle", "revoking", "removing", "ended"}, todo : SUBSET Nat, gone : SUBSET Nat]

TypeOK ==
    /\ keys \in Seq(KeyRecords)
    /\ reach \in [Accounts -> SUBSET Spaces]
    /\ codes \in Nat /\ commands \in Nat /\ faults \in Nat
    /\ file \in Files
    /\ lock \in Editors \cup {Nobody} /\ signer \in Flows \cup {Nobody} /\ record \in Nat
    /\ edit \in [Editors -> [pc : {"none", "waits", "read"}, snap : Files]]
    /\ flow \in [Flows -> FlowRecords]
    /\ call \in [Servers -> CallRecords]
    /\ out \in [Outs -> OutRecords]
    /\ told \cup dropped \cup half \cup deadCodes \subseteq Nat

(* No login key is left valid unseen: a live key is the file's, or a login *)
(* that runs still holds it, or a person was told to revoke it on the      *)
(* Tokens page, or the process that held it died.  Login.Run says every    *)
(* issued key it does not store is revoked, and Logout.remove that it      *)
(* never orphans a live key, whatever two logins and a logout interleave.  *)
NoKeyOrphaned ==
    \A k \in 1 .. Len(keys) : Live(k) =>
        \/ \E x \in Sites : file.logins[x] = k
        \/ \E f \in Flows : k \in FlowKeys(f)
        \/ k \in told \cup dropped

(* The file never holds a key that was revoked, but while the logout that  *)
(* revoked it still has to remove it, or after that logout failed to, or   *)
(* never learned that the site revoked the key: no login ever revokes a    *)
(* key the file holds.  One that refuses to store revokes the key it got,  *)
(* and a replaced key leaves the file before it is revoked.                *)
StoredKeyNotRevoked ==
    \A x \in Sites : file.logins[x] # 0 =>
        LET k == file.logins[x]
        IN keys[k].state = "revoked" => \/ \E o \in Outs : k \in out[o].gone
                                        \/ k \in half

(* The credentials file and the sites agree about login keys, in both      *)
(* directions (Login.Run, discard, Logout.remove).                         *)
KeysAccounted == NoKeyOrphaned /\ StoredKeyNotRevoked

(* Each endpoint has at most one login, and its default space is one that  *)
(* login's account reaches; no default outlives the login it was chosen    *)
(* from.                                                                   *)
OneLoginPerEndpoint ==
    /\ Cardinality({x \in Sites : file.logins[x] # 0}) <= 1
    /\ file.deflt # NoSpace => Login # 0 /\ file.deflt \in Reaches(Login)

(* One person's login never takes another person's place without consent:  *)
(* an entry of another account is replaced only by a login somebody agreed *)
(* to, also when the entry was stored while that login waited for its own  *)
(* approval.                                                               *)
ReplacedWithConsent ==
    [][\A x \in Sites :
          LET was == file.logins[x]
              is == file'.logins[x]
          IN (was # is /\ was # 0 /\ is # 0 /\ keys[was].account # keys[is].account) =>
                \E f \in Flows : flow[f].key = is /\ flow[f].agreed]_vars

(* The page a waiting tool call shows is one that a running login polls    *)
(* for, or the page of a process that died; so an approval is never asked  *)
(* of a person for a login that already ended.                             *)
PageIsPolled ==
    [][\A s \in Servers :
          (call'[s].page # 0 /\ call'[s].page # call[s].page) =>
              \/ \E f \in Flows : flow[f].code = call'[s].page
              \/ call'[s].page \in deadCodes]_vars
=============================================================================
