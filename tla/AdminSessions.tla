---------------------------- MODULE AdminSessions ----------------------------
(***************************************************************************)
(* The administrator's sessions of the loopback management API: the session *)
(* and browser handoff authority (internal/auth/manager.go), the handlers   *)
(* that issue, use and end sessions and stream invalidations                *)
(* (internal/api/server.go), the owner's command line client                *)
(* (cmd/sprun/management_client.go) and the browser (web/src).              *)
(*                                                                         *)
(* A handler runs on after its client is gone.  Between two of its steps    *)
(* other handlers run: every call of the manager is one step under its lock, *)
(* every audit one transaction.  The wall clock is kept as the age of a code *)
(* and may step back; sessions expire by the monotonic clock.  A cursor is   *)
(* only ever compared with the current one, so of its revision and          *)
(* generation the model keeps whether they are still current.               *)
(***************************************************************************)
EXTENDS Integers, FiniteSets

CONSTANTS
    Clis,           \* runs of the owner's command line client
    Codes,          \* browser handoff codes at the same time
    Sessions,       \* session nonces at the same time
    Reqs,           \* HTTP handlers at the same time
    MaxEvents       \* bound: lost clients, failed audits, clock steps, restarts
                    \* of the Controller, expired sessions, failed issues,
                    \* changes of the reconciler and of the Agents' listener

ASSUME AdminConstants ==
    /\ Clis \subseteq Nat \ {0} /\ Sessions \subseteq Nat \ {0}
    /\ Codes \subseteq Nat \ {0} /\ Reqs \subseteq Nat \ {0}
    /\ IsFiniteSet(Codes) /\ IsFiniteSet(Sessions) /\ IsFiniteSet(Reqs)
    /\ MaxEvents \in Nat

VARIABLES
    sess,           \* activeSessions: "none", "active", "late" (deadline passed);
                    \* and whether the session is in the audit log and was sent
    hand,           \* browserHandoffs: phase, fence, and the handler that has yet
                    \* to record the approval (0: it is in the audit log)
    age,            \* of a code: "none", "early", "valid", "expired", "void"
    health,         \* of the audit: "yes", "degraded", "noted" (and published)
    note,           \* publishManagementInvalidations: "armed" (it selects on the
                    \* reconciler's channel), "fired" (that channel is closed),
                    \* "away" (it has yet to fetch the next channel).  It is
                    \* started before the listener serves, so begins "armed"
    req,            \* the handlers
    cli,            \* the command line clients
    tab,            \* the browser: handoff code, session, last cursor
    stream,         \* the handler of GET /events and its subscription
    credit,         \* recorded authorizations of a code less sessions sent for it
    events

authority == <<sess, hand, age>>
vars == <<authority, health, note, req, cli, tab, stream, credit, events>>

---------------------------------------------------------------------------
\* who: a command line client, or 0 for the browser; live: it still waits
NoReq   == [kind |-> "none", who |-> 0, live |-> TRUE, s |-> 0, c |-> 0, f |-> 0,
            pc |-> "idle", res |-> "ok"]
NoSession == [is |-> "none", logged |-> FALSE, sent |-> FALSE]
NoEntry == [phase |-> "none", f |-> 0, by |-> 0]
NoStream == [pc |-> "off", s |-> 0, tok |-> FALSE, rv |-> FALSE, gn |-> FALSE, same |-> FALSE]
\* rv, gn: the revision and the generation of its cursor are still current;
\* dirty: what changed since the last event that made it read again
NoTab   == [pc |-> "out", c |-> 0, s |-> 0, rv |-> FALSE, gn |-> FALSE, dirty |-> {}]

Init ==
    /\ sess = [s \in Sessions |-> NoSession]
    /\ hand = [c \in Codes |-> NoEntry] /\ age = [c \in Codes |-> "none"]
    /\ health = "yes" /\ note = "armed"
    /\ req = [r \in Reqs |-> NoReq]
    /\ cli = [k \in Clis |-> [pc |-> "new", s |-> 0]]
    /\ tab = NoTab /\ stream = NoStream
    /\ credit = [c \in Codes |-> 0] /\ events = 0

Event == events < MaxEvents /\ events' = events + 1

---------------------------------------------------------------------------
(* EventBus *)

\* Mutant: subscribed only after the revision is read.
SubscribedLate == stream.pc \in {"first", "idle", "woken", "stamp", "write"}

Subscribed == stream.pc \in {"subscribed", "first", "idle", "woken", "stamp", "write"}

\* The generation grows and a subscriber's channel holds at most one token.
Publish ==
    /\ stream' = [stream EXCEPT !.gn = FALSE, !.tok = Subscribed]
    /\ tab' = [tab EXCEPT !.gn = FALSE]

\* A change the browser's pages show, by its origin: an API handler or the
\* degraded audit ("api"), the reconciler while its channel is selected on
\* ("reconciler") or not ("missed"), the Agents' listener ("agents").
Dirtied(origin) == IF tab.s # 0 THEN tab.dirty \cup {origin} ELSE {}

\* A committed change, of the configuration's revision or not.
Changed(revision, origin) ==
    /\ stream' = [stream EXCEPT !.rv = @ /\ ~revision]
    /\ tab' = [tab EXCEPT !.rv = @ /\ ~revision, !.dirty = Dirtied(origin)]

---------------------------------------------------------------------------
(* The session authority *)

Active(s) == s # 0 /\ sess[s].is = "active"

\* sessionActive, WatchSession: an entry past its deadline is dropped.
Dropped(s) == [sess EXCEPT ![s] = IF @.is = "late" THEN NoSession ELSE @]

Revoked(s) == [sess EXCEPT ![s] = NoSession]

Holds(s) ==
    \/ \E r \in Reqs : req[r].s = s
    \/ \E k \in Clis : cli[k].s = s
    \/ s \in {tab.s, stream.s}

\* A nonce nobody knows.
Fresh == {s \in Sessions : sess[s].is # "active" /\ ~Holds(s)}

\* The smallest of interchangeable names.
Least(S) == CHOOSE x \in S : \A y \in S : x <= y

\* IssueSession: a fresh nonce, and entries past their deadline are swept.
Issued(new) ==
    [s \in Sessions |-> CASE s = new -> [NoSession EXCEPT !.is = "active"]
                          [] s # new /\ sess[s].is = "late" -> NoSession
                          [] OTHER -> sess[s]]

IssueSession(r) ==
    /\ Fresh # {}
    /\ sess' = Issued(Least(Fresh))
    /\ req' = [req EXCEPT ![r].s = Least(Fresh), ![r].pc = "audit"]

Deadline(s) ==
    /\ Event /\ Active(s)
    /\ sess' = [sess EXCEPT ![s].is = "late"]
    /\ UNCHANGED <<hand, age, health, note, req, cli, tab, stream, credit>>

---------------------------------------------------------------------------
(* Browser handoffs *)

\* authenticateBrowserHandoff: this process signed the code, not in the
\* future, and it has not expired.
Parses(c) ==
    CASE age[c] = "valid"   -> "ok"
      [] age[c] = "expired" -> "expired"
      [] OTHER              -> "invalid"

\* expireBrowserHandoffsLocked
Swept == [c \in Codes |-> IF age[c] = "expired" THEN NoEntry ELSE hand[c]]

\* nextBrowserHandoffFenceLocked: never used before; of the counter only
\* whether two fences are equal is ever looked at.
NextFence ==
    LET used == {hand[c].f : c \in Codes} \cup {req[r].f : r \in Reqs}
    IN  CHOOSE n \in 1 .. Cardinality(used) + 1 : n \notin used /\ \A m \in 1 .. n - 1 : m \in used

Owns(r, phase) == hand[req[r].c].phase = phase /\ hand[req[r].c].f = req[r].f

ClaimedEntry(e) == [e EXCEPT !.phase = "claimed"]

\* Mutant: the rollback of a claim is forgotten.
StaysClaiming(e) == e

ReleasedEntry(e) == [e EXCEPT !.phase = "approved"]

\* CommitBrowserHandoffApproval, CommitBrowserHandoffClaim and
\* RollbackBrowserHandoffClaim: an expired entry is deleted.
Settle(r, entry) ==
    hand' = [hand EXCEPT ![req[r].c] = IF age[req[r].c] = "expired" THEN NoEntry ELSE entry]

Unused(c) ==
    /\ age[c] \in {"none", "expired", "void"} /\ hand[c] = NoEntry
    /\ tab.c # c /\ \A r \in Reqs : req[r].c # c

\* createBrowserHandoff: nothing is kept of a code.  The browser may open
\* the page again, or another one asks for a code and never uses it.
IssueBrowserHandoff ==
    /\ hand' = Swept
    /\ \/ UNCHANGED <<age, tab, credit>>
       \/ \E c \in Codes :
            /\ Unused(c) /\ tab.pc = "out"
            /\ age' = [age EXCEPT ![c] = "valid"]
            /\ tab' = [tab EXCEPT !.pc = "code", !.c = c]
            /\ credit' = [credit EXCEPT ![c] = 0]
    /\ UNCHANGED <<sess, health, note, req, cli, stream, events>>

---------------------------------------------------------------------------
(* Clients *)

Send(r, kind, who, s, c) ==
    /\ \E q \in Reqs : req[q] = NoReq
    /\ r = Least({q \in Reqs : req[q] = NoReq})
    /\ req' = [req EXCEPT ![r] = [NoReq EXCEPT !.kind = kind, !.who = who, !.s = s, !.c = c, !.pc = "enter"]]

\* withSession: a session is made, used for one operation, and ended.
CliSends(k, r) ==
    /\ \/ cli[k].pc = "new" /\ k = Least({j \in Clis : cli[j].pc = "new"}) /\ Send(r, "login", k, 0, 0)
       \/ \E c \in Codes : cli[k].pc = "op" /\ age[c] # "none" /\ Send(r, "authorize", k, cli[k].s, c)
       \/ cli[k].pc = "logout" /\ Send(r, "logout", k, cli[k].s, 0)
    /\ cli' = [cli EXCEPT ![k].pc = CASE @ = "new" -> "login" [] @ = "op" -> "operation" [] OTHER -> "ending"]
    /\ UNCHANGED <<authority, health, note, tab, stream, credit, events>>

\* The browser claims its code; its pages change one thing at a time, or end
\* the session (the API's operation; the web interface has no button for it)
\* without telling each other; and a page opens the stream of events, again
\* and again.
TabSends(r) ==
    /\ \/ tab.pc = "code" /\ Send(r, "claim", 0, 0, tab.c) /\ tab' = [tab EXCEPT !.pc = "claim"]
       \/ \E kind \in {"mutate", "logout"} :
            /\ tab.pc = "in" /\ \A q \in Reqs : req[q].kind \notin {"mutate", "logout"}
            /\ Send(r, kind, 0, tab.s, 0) /\ UNCHANGED tab
       \/ /\ tab.pc = "in" /\ stream = NoStream /\ \A q \in Reqs : req[q].kind # "stream"
          /\ Send(r, "stream", 0, tab.s, 0) /\ UNCHANGED tab
    /\ UNCHANGED <<authority, health, note, cli, stream, credit, events>>

\* What a client does with its answer.  The browser keeps its code for a
\* pending or unconfirmed claim, and drops it when it is rejected or expired;
\* a stream refused for its session ends the session's page.
CliAnswered(x, s, answer) ==
    CASE x.pc = "login" /\ answer = "ok" -> [pc |-> "op", s |-> s]
      [] x.pc = "operation"              -> [x EXCEPT !.pc = "logout"]
      [] OTHER                           -> [pc |-> "done", s |-> 0]

TabAnswered(h, answer) ==
    CASE h.kind = "claim" /\ answer = "ok"   -> [NoTab EXCEPT !.pc = "in", !.s = h.s, !.dirty = {"api"}]
      [] h.kind = "claim" /\ answer = "gone" -> NoTab
      [] h.kind = "claim"                    -> [tab EXCEPT !.pc = "code"]
      [] h.kind = "stream" /\ tab.s = h.s /\ answer = "gone" -> NoTab
      [] OTHER                               -> tab

ToClient(h, answer) ==
    IF h.who \in Clis
      THEN cli' = [cli EXCEPT ![h.who] = CliAnswered(@, h.s, answer)] /\ UNCHANGED tab
      ELSE tab' = TabAnswered(h, answer) /\ UNCHANGED cli

Answers(r, answer) ==
    /\ req' = [req EXCEPT ![r] = NoReq]
    /\ IF req[r].live THEN ToClient(req[r], answer) ELSE UNCHANGED <<cli, tab>>

\* The connection of a waiting client ends: the command line client gives up
\* (withSession still ends the session it has), the browser reads its session
\* and keeps the code; the handler goes on.
ClientGone(r) ==
    /\ Event /\ req[r] # NoReq /\ req[r].live
    /\ req' = [req EXCEPT ![r].live = FALSE, ![r].who = 0]
    /\ ToClient(req[r], "retry")
    /\ UNCHANGED <<authority, health, note, stream, credit>>

To(r, pc) == req' = [req EXCEPT ![r].pc = pc]

---------------------------------------------------------------------------
(* Handlers *)

\* recordRejection, then the refusal; a handler that is refused has no other
\* effect.  The guard lets one rejection of a kind through in each window of
\* time, so that any of them may or may not be recorded.
Reject(r) == req' = [req EXCEPT ![r].pc = "reject", ![r].res = "rejected"]

RecordRejection(r) ==
    /\ req[r].pc = "reject"
    /\ \/ Answers(r, "gone")
       \/ To(r, "audit") /\ UNCHANGED <<cli, tab>>
    /\ UNCHANGED <<authority, health, note, stream, credit, events>>

\* recordAudit: an append, whose failure degrades the audit for good, and a
\* publication in either case.
Recorded(r) ==
    /\ health = "yes"
    /\ LET h == req[r] IN
         /\ sess' = IF h.kind \in {"login", "claim"} /\ h.res = "ok"
                      THEN [sess EXCEPT ![h.s].logged = Active(h.s)] ELSE sess
         /\ IF h.kind = "authorize" /\ h.res = "ok"
              THEN /\ hand' = [hand EXCEPT ![h.c].by = IF @ = r THEN 0 ELSE @]
                   /\ credit' = [credit EXCEPT ![h.c] = @ + 1]
              ELSE UNCHANGED <<hand, credit>>
    /\ Changed(FALSE, "api") /\ To(r, "publish")
    /\ UNCHANGED <<health, events>>

NotRecorded(r) ==
    /\ \/ health = "yes" /\ Event /\ health' = "degraded" /\ Changed(FALSE, "api")
       \/ health # "yes" /\ UNCHANGED <<health, stream, tab, events>>
    /\ req' = [req EXCEPT ![r].pc = "publish", ![r].res = IF @ = "ok" THEN "failed" ELSE @]
    /\ UNCHANGED <<sess, hand, credit>>

RecordAudit(r) ==
    /\ req[r].pc = "audit"
    /\ Recorded(r) \/ NotRecorded(r)
    /\ UNCHANGED <<age, note, cli>>

PublishAudit(r) ==
    /\ req[r].pc = "publish" /\ Publish /\ To(r, "after")
    /\ UNCHANGED <<authority, health, note, cli, credit, events>>

\* A handler that was refused, and one with nothing left to do, answer.
Finish(r) ==
    /\ req[r].pc = "after"
    /\ \/ req[r].res = "rejected" /\ Answers(r, "gone")
       \/ req[r].res # "rejected" /\ req[r].kind \in {"logout", "mutate"} /\ Answers(r, "ok")
    /\ UNCHANGED <<authority, health, note, stream, credit, events>>

---------------------------------------------------------------------------
(* publishManagementInvalidations and the changes outside the API *)

\* signalChangeLocked closes the channel the notifier may be selecting on.
ReconcilerChanges ==
    /\ Event
    /\ Changed(FALSE, IF note = "away" THEN "missed" ELSE "reconciler")
    /\ note' = IF note = "armed" THEN "fired" ELSE note
    /\ UNCHANGED <<authority, health, req, cli, credit>>

\* One arm of the select: the closed channel, or the degraded audit once.
NotifierPublishes ==
    /\ note # "away"
    /\ \/ note = "fired" /\ UNCHANGED health
       \/ health = "degraded" /\ health' = "noted"
    /\ Publish /\ note' = "away"
    /\ UNCHANGED <<authority, req, cli, credit, events>>

\* The channel is fetched again only after the publication.
NotifierArms ==
    /\ note = "away" /\ note' = "armed"
    /\ UNCHANGED <<authority, health, req, cli, tab, stream, credit, events>>

\* appendAgentSessionRejectionAudit and appendEnrollmentAudit: an append of
\* the Agents' listener is not published, only a failed one is noticed.  It
\* changes nothing here when no browser shows the audit list.
AgentAppends ==
    /\ Event /\ health = "yes"
    /\ \/ tab.s # 0 /\ Changed(FALSE, "agents") /\ UNCHANGED health
       \/ Changed(FALSE, "api") /\ health' = "degraded"
    /\ UNCHANGED <<authority, note, req, cli, credit>>

\* The session made by a handler does not outlive its failure.
IssuedRevoked(s) == Revoked(s)

---------------------------------------------------------------------------
(* createSession *)

\* The proof is fresh, or late or repeated; no session may be had for it.
Login(r) ==
    /\ req[r].kind = "login" /\ req[r].pc = "enter"
    /\ \/ IssueSession(r) /\ UNCHANGED <<cli, tab, events>>
       \/ Event /\ Reject(r) /\ UNCHANGED <<sess, cli, tab>>
       \/ Event /\ Answers(r, "retry") /\ UNCHANGED sess
    /\ UNCHANGED <<hand, age, health, note, stream, credit>>

Sent(s) == [sess EXCEPT ![s].sent = Active(s)]

LoginAnswered(r) ==
    /\ req[r].kind = "login" /\ req[r].pc = "after"
    /\ \/ req[r].res = "ok" /\ sess' = Sent(req[r].s) /\ Answers(r, "ok")
       \/ req[r].res = "failed" /\ sess' = IssuedRevoked(req[r].s) /\ Answers(r, "retry")
    /\ UNCHANGED <<hand, age, health, note, stream, credit, events>>

---------------------------------------------------------------------------
(* authorizeMutation and the mutations *)

\* AuthorizeMutation and the health of the audit; a code is parsed, and one
\* this process did not sign is recorded too.
Authorize(r) ==
    LET h == req[r] IN
    /\ h.kind \in {"authorize", "logout", "mutate"} /\ h.pc = "enter"
    /\ sess' = Dropped(h.s)
    /\ \/ ~Active(h.s) /\ Reject(r) /\ UNCHANGED <<cli, tab>>
       \/ /\ Active(h.s) /\ h.kind = "logout" /\ To(r, "revoke") /\ UNCHANGED <<cli, tab>>
       \/ /\ Active(h.s) /\ h.kind # "logout"
          /\ IF health # "yes" THEN Answers(r, "retry")
             ELSE IF h.kind = "mutate" THEN To(r, "commit") /\ UNCHANGED <<cli, tab>>
             ELSE CASE Parses(h.c) = "ok"      -> To(r, "approve") /\ UNCHANGED <<cli, tab>>
                    [] Parses(h.c) = "expired" -> Answers(r, "gone")
                    [] OTHER                   -> Reject(r) /\ UNCHANGED <<cli, tab>>
    /\ UNCHANGED <<hand, age, health, note, stream, credit, events>>

\* deleteSession: the session ends whatever the audit does.
Logout(r) ==
    /\ req[r].kind = "logout" /\ req[r].pc = "revoke"
    /\ sess' = Revoked(req[r].s)
    /\ IF health = "yes" THEN To(r, "audit") /\ UNCHANGED <<cli, tab>> ELSE Answers(r, "retry")
    /\ UNCHANGED <<hand, age, health, note, stream, credit, events>>

\* A mutation and its audit commit together; refused ones change nothing,
\* and only the commit can degrade the audit.
Mutate(r) ==
    /\ req[r].kind = "mutate" /\ req[r].pc = "commit"
    /\ \/ /\ health = "yes" /\ To(r, "publish") /\ \E revision \in BOOLEAN : Changed(revision, "api")
          /\ UNCHANGED <<health, cli, events>>
       \/ /\ health = "yes" /\ Event /\ health' = "degraded" /\ Changed(FALSE, "api")
          /\ To(r, "refused") /\ UNCHANGED cli
       \/ Answers(r, "retry") /\ UNCHANGED <<health, stream, events>>
    /\ UNCHANGED <<authority, note, credit>>

MutationRefused(r) ==
    /\ req[r].pc = "refused" /\ Answers(r, "retry")
    /\ UNCHANGED <<authority, health, note, stream, credit, events>>

---------------------------------------------------------------------------
(* authorizeBrowserHandoff *)

ApproveBrowserHandoff(r) ==
    LET c == req[r].c IN
    /\ req[r].kind = "authorize" /\ req[r].pc = "approve"
    /\ IF Swept[c] = NoEntry
         THEN /\ hand' = [Swept EXCEPT ![c] = [phase |-> "approving", f |-> NextFence, by |-> r]]
              /\ req' = [req EXCEPT ![r].f = NextFence, ![r].pc = "audit"]
              /\ UNCHANGED <<cli, tab>>
         ELSE /\ hand' = Swept
              /\ Answers(r, IF Swept[c].phase = "approving" THEN "retry" ELSE "ok")
    /\ UNCHANGED <<sess, age, health, note, stream, credit, events>>

\* Commit after the audit, or rollback, each only of this handler's entry.
ApprovalSettled(r) ==
    LET c == req[r].c IN
    /\ req[r].kind = "authorize" /\ req[r].pc = "after" /\ req[r].res # "rejected"
    /\ IF ~Owns(r, "approving") THEN UNCHANGED hand
       ELSE IF req[r].res = "ok" THEN Settle(r, [hand[c] EXCEPT !.phase = "approved"])
       ELSE hand' = [hand EXCEPT ![c] = NoEntry]
    /\ Answers(r, "ok")
    /\ UNCHANGED <<sess, age, health, note, stream, credit, events>>

---------------------------------------------------------------------------
(* claimBrowserHandoff *)

Claim(r) ==
    LET c == req[r].c IN
    /\ req[r].kind = "claim" /\ req[r].pc = "enter"
    /\ CASE Parses(c) = "ok"      -> To(r, "claim") /\ UNCHANGED <<cli, tab>>
         [] Parses(c) = "expired" -> Answers(r, "gone")
         [] OTHER                 -> Reject(r) /\ UNCHANGED <<cli, tab>>
    /\ UNCHANGED <<authority, health, note, stream, credit, events>>

\* Pending, claiming and claimed codes are answered; the browser keeps them.
ClaimBrowserHandoff(r) ==
    LET c == req[r].c IN
    /\ req[r].kind = "claim" /\ req[r].pc = "claim"
    /\ IF Swept[c].phase = "approved"
         THEN /\ hand' = [Swept EXCEPT ![c].phase = "claiming", ![c].f = NextFence]
              /\ req' = [req EXCEPT ![r].f = NextFence, ![r].pc = "issue"]
              /\ UNCHANGED <<cli, tab>>
         ELSE hand' = Swept /\ Answers(r, "retry")
    /\ UNCHANGED <<sess, age, health, note, stream, credit, events>>

\* A session for the claim, or its rollback.
ClaimIssues(r) ==
    /\ req[r].kind = "claim" /\ req[r].pc = "issue"
    /\ \/ IssueSession(r) /\ UNCHANGED events
       \/ Event /\ To(r, "rollback") /\ UNCHANGED sess
    /\ UNCHANGED <<hand, age, health, note, cli, tab, stream, credit>>

\* CommitBrowserHandoffClaim, and the cookie.
ClaimCommits(r) ==
    LET c == req[r].c IN
    /\ req[r].kind = "claim" /\ req[r].pc = "after" /\ req[r].res = "ok"
    /\ IF Owns(r, "claiming") THEN Settle(r, ClaimedEntry(hand[c])) ELSE UNCHANGED hand
    /\ IF Owns(r, "claiming") /\ age[c] # "expired"
         THEN /\ sess' = Sent(req[r].s) /\ credit' = [credit EXCEPT ![c] = @ - 1]
              /\ Answers(r, "ok")
         ELSE To(r, "revoke") /\ UNCHANGED <<sess, credit, cli, tab>>
    /\ UNCHANGED <<age, health, note, stream, events>>

\* A claim that failed: the session ends, and after a failed audit the
\* handoff is released.
ClaimRevokes(r) ==
    /\ req[r].kind = "claim"
    /\ \/ req[r].pc = "revoke" /\ Answers(r, "retry")
       \/ req[r].pc = "after" /\ req[r].res = "failed" /\ To(r, "rollback") /\ UNCHANGED <<cli, tab>>
    /\ sess' = IssuedRevoked(req[r].s)
    /\ UNCHANGED <<hand, age, health, note, stream, credit, events>>

ClaimRollsBack(r) ==
    /\ req[r].pc = "rollback"
    /\ IF Owns(r, "claiming") THEN Settle(r, ReleasedEntry(hand[req[r].c])) ELSE UNCHANGED hand
    /\ Answers(r, "retry")
    /\ UNCHANGED <<sess, age, health, note, stream, credit, events>>

---------------------------------------------------------------------------
(* streamEvents *)

StreamAuthorized(r) ==
    /\ req[r].kind = "stream" /\ req[r].pc = "enter"
    /\ sess' = Dropped(req[r].s)
    /\ IF Active(req[r].s) THEN To(r, "watch") ELSE Reject(r)
    /\ UNCHANGED <<hand, age, health, note, cli, tab, stream, credit, events>>

\* WatchSession; a stream without client is over at once.
WatchSession(r) ==
    /\ req[r].kind = "stream" /\ req[r].pc = "watch"
    /\ sess' = Dropped(req[r].s)
    /\ IF Active(req[r].s)
         THEN /\ req' = [req EXCEPT ![r] = NoReq]
              /\ stream' = IF req[r].live THEN [NoStream EXCEPT !.pc = "watched", !.s = req[r].s] ELSE stream
         ELSE Reject(r) /\ UNCHANGED stream
    /\ UNCHANGED <<hand, age, health, note, cli, tab, credit, events>>

\* The context of the stream ends at the session's deadline, when the session
\* is revoked, and with the client.
StreamContextDone == ~Active(stream.s) \/ tab.s # stream.s

\* subscribe, with the generation; then the revision.  same: the cursor the
\* browser supplied equals the one made of them.
StreamSubscribes ==
    /\ stream.pc = "watched"
    /\ stream' = [stream EXCEPT !.pc = "subscribed", !.gn = TRUE, !.same = tab.gn]
    /\ UNCHANGED tab

StreamReads ==
    /\ stream.pc = "subscribed" /\ ~StreamContextDone
    /\ stream' = [stream EXCEPT !.pc = "first", !.rv = TRUE, !.same = @ /\ tab.rv]
    /\ UNCHANGED tab

\* An event reaches the browser: its cursor is kept, and anything but "ready"
\* makes it read everything again.
Receives(ready) ==
    /\ tab.s = stream.s
    /\ tab' = [tab EXCEPT !.rv = stream.rv, !.gn = stream.gn, !.dirty = IF ready THEN @ ELSE {}]
    /\ stream' = [stream EXCEPT !.pc = "idle", !.rv = FALSE, !.gn = FALSE, !.same = FALSE]

StreamFirst == stream.pc = "first" /\ Receives(stream.same)

\* One token of the channel: the revision, read under the stream's context,
\* the generation, the event.
StreamWakes ==
    /\ stream.pc = "idle" /\ stream.tok
    /\ stream' = [stream EXCEPT !.pc = "woken", !.tok = FALSE]
    /\ UNCHANGED tab

StreamStamps ==
    /\ \/ stream.pc = "woken" /\ ~StreamContextDone /\ stream' = [stream EXCEPT !.pc = "stamp", !.rv = TRUE]
       \/ stream.pc = "stamp" /\ stream' = [stream EXCEPT !.pc = "write", !.gn = TRUE]
    /\ UNCHANGED tab

StreamWrites == stream.pc = "write" /\ Receives(FALSE)

StreamEnds ==
    /\ stream # NoStream /\ StreamContextDone
    /\ stream' = NoStream /\ UNCHANGED tab

StreamStep ==
    /\ \/ StreamSubscribes \/ StreamReads \/ StreamFirst \/ StreamWakes
       \/ StreamStamps \/ StreamWrites \/ StreamEnds
    /\ UNCHANGED <<authority, health, note, req, cli, credit, events>>

\* The connection, or the reading of the revision, fails.
StreamLost ==
    /\ Event /\ stream # NoStream /\ stream' = NoStream
    /\ UNCHANGED <<authority, health, note, req, cli, tab, credit>>

---------------------------------------------------------------------------
(* Time and restarts *)

\* The wall clock goes on, and may be set back.
ClockForward(c) ==
    /\ age[c] \in {"early", "valid"}
    /\ age' = [age EXCEPT ![c] = IF @ = "early" THEN "valid" ELSE "expired"]
    /\ UNCHANGED <<sess, hand, health, note, req, cli, tab, stream, credit, events>>

ClockBack(c) ==
    /\ Event /\ age[c] \in {"valid", "expired"}
    /\ age' = [age EXCEPT ![c] = IF @ = "valid" THEN "early" ELSE "valid"]
    /\ UNCHANGED <<sess, hand, health, note, req, cli, tab, stream, credit>>

\* The Controller starts again: sessions, handoffs and the key that signs
\* their codes are of the process, and so is the epoch in a cursor.
Restart ==
    /\ Event
    /\ sess' = [s \in Sessions |-> NoSession] /\ hand' = [c \in Codes |-> NoEntry]
    /\ age' = [c \in Codes |-> IF age[c] = "none" THEN "none" ELSE "void"]
    /\ health' = "yes" /\ note' = "armed"
    /\ req' = [r \in Reqs |-> NoReq] /\ stream' = NoStream
    /\ cli' = [k \in Clis |-> IF cli[k].pc \in {"login", "operation", "ending"}
                                THEN CliAnswered(cli[k], 0, "retry") ELSE cli[k]]
    /\ tab' = IF tab.pc = "claim" THEN [tab EXCEPT !.pc = "code"] ELSE [tab EXCEPT !.rv = FALSE, !.gn = FALSE]
    /\ UNCHANGED credit

---------------------------------------------------------------------------
Handler(r) ==
    \/ RecordRejection(r) \/ RecordAudit(r) \/ PublishAudit(r) \/ Finish(r)
    \/ Login(r) \/ LoginAnswered(r)
    \/ Authorize(r) \/ Logout(r) \/ Mutate(r) \/ MutationRefused(r)
    \/ ApproveBrowserHandoff(r) \/ ApprovalSettled(r)
    \/ Claim(r) \/ ClaimBrowserHandoff(r) \/ ClaimIssues(r) \/ ClaimCommits(r)
    \/ ClaimRevokes(r) \/ ClaimRollsBack(r)
    \/ StreamAuthorized(r) \/ WatchSession(r)

Next ==
    \/ \E r \in Reqs : Handler(r) \/ TabSends(r) \/ ClientGone(r)
    \/ \E k \in Clis, r \in Reqs : CliSends(k, r)
    \/ \E s \in Sessions : Deadline(s)
    \/ \E c \in Codes : ClockForward(c) \/ ClockBack(c)
    \/ IssueBrowserHandoff
    \/ ReconcilerChanges \/ NotifierPublishes \/ NotifierArms \/ AgentAppends
    \/ StreamStep \/ StreamLost \/ Restart

\* Handlers, the notifier and the command line client run on;
\* nobody has to start a client, to open a page, to retry or to log out.
Fairness ==
    /\ \A r \in Reqs : WF_vars(Handler(r))
    /\ \A k \in Clis : WF_vars(cli[k].pc # "new" /\ \E r \in Reqs : CliSends(k, r))
    /\ WF_vars(NotifierPublishes \/ NotifierArms) /\ WF_vars(StreamStep)

Spec == Init /\ [][Next]_vars /\ Fairness

---------------------------------------------------------------------------
(* Properties *)

\* Sessions, handoffs, handlers, clients and the stream have their shapes,
\* and an idle handler keeps nothing of the request it served.
TypeOK ==
    /\ \A s \in Sessions :
         sess[s] \in [is : {"active", "late"}, logged : BOOLEAN, sent : BOOLEAN] \cup {NoSession}
    /\ \A c \in Codes :
         /\ hand[c].phase \in {"none", "approving", "approved", "claiming", "claimed"}
         /\ hand[c].phase = "none" <=> hand[c] = NoEntry
         /\ hand[c].by \in Reqs \cup {0}
    /\ age \in [Codes -> {"none", "early", "valid", "expired", "void"}]
    /\ health \in {"yes", "degraded", "noted"} /\ note \in {"armed", "fired", "away"}
    /\ \A r \in Reqs :
         /\ req[r].pc = "idle" <=> req[r] = NoReq
         /\ req[r].s \in Sessions \cup {0} /\ req[r].c \in Codes \cup {0}
         /\ req[r].res \in {"ok", "failed", "rejected"}
         /\ req[r].pc \in {"claim", "issue", "approve"} => req[r].c # 0
    /\ \A k \in Clis : cli[k].pc \in {"op", "operation", "logout", "ending"} <=> cli[k].s # 0
    /\ tab.pc \in {"out", "code", "claim", "in"}
    /\ tab.s # 0 <=> tab.pc = "in"
    /\ stream.pc = "off" <=> stream = NoStream
    /\ events \in 0 .. MaxEvents

\* A browser is sent at most as many sessions for a code as the owner's
\* authorizations of that code the audit log holds, whatever is rolled back,
\* repeated or expires on the way.
EachClaimWasApproved == \A c \in Codes : credit[c] >= 0

\* A code that can be claimed was approved by a handler that recorded this
\* very approval: no other handler's commit, late or of an entry that is
\* gone, approves it.
ApprovedIsAudited ==
    \A c \in Codes :
      hand[c].phase \in {"approved", "claiming", "claimed"} => hand[c].by = 0

\* A session in force belongs to a handler that is still making it, or it was
\* recorded in the audit log and sent to a client.
SessionIsAccounted ==
    \A s \in Sessions :
      sess[s].is = "active" =>
        \/ \E r \in Reqs : req[r].s = s /\ req[r].kind \in {"login", "claim"}
        \/ sess[s].logged /\ sess[s].sent

\* A stream that waits, with no token in its channel and no publication to come
Quiet ==
    /\ stream.pc = "idle" /\ ~stream.tok /\ tab.s = stream.s
    /\ \A r \in Reqs : req[r].pc # "publish"
    /\ note # "fired" /\ health # "degraded"

\* A waiting stream has told the browser of every change the API's handlers
\* committed, of the degraded audit, and of every change the reconciler made
\* while the notifier was selecting on its channel.  Not of the reconciler's
\* changes between a publication and the next Change() ("missed"), nor of what
\* the Agents' listener appends ("agents"): the code publishes neither.
NoLostInvalidation == Quiet => tab.dirty \cap {"api", "reconciler"} = {}

\* No handoff stays in a phase only its handler can end: every approval and
\* every claim under way is committed, rolled back or given up.
HandoffSettles ==
    \A c \in Codes :
      hand[c].phase \in {"approving", "claiming"} ~> hand[c].phase \in {"none", "approved", "claimed"}

\* A stream does not outlive its session, by expiry or by revocation.
StreamsEnd == (stream # NoStream /\ sess[stream.s].is # "active") ~> (stream = NoStream)

\* Every session and every handoff has its approval and its audit record, and every
\* waiting stream has been told of what the API's handlers committed and of what
\* the notifier could see.
SessionsAreAccounted ==
    /\ TypeOK
    /\ EachClaimWasApproved
    /\ ApprovedIsAudited
    /\ SessionIsAccounted
    /\ NoLostInvalidation

\* Handoffs and streams end, whoever was lost on the way.
HandlersEnd == HandoffSettles /\ StreamsEnd

=============================================================================
