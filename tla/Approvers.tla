----------------------------- MODULE Approvers -----------------------------
(* The approver API and its clients: internal/approverapi (server and         *)
(* client), internal/approval as it is used there, `warden approve`           *)
(* (cmd/warden/clients.go) and the console's approve button                   *)
(* (cmd/warden/console.go).                                                   *)
(*                                                                            *)
(* An approver signs a list request; anybody who holds the signed line may    *)
(* send it again.  The server checks its timestamp, then takes a lock and     *)
(* consumes its nonce, then lists the held calls.  The client believes        *)
(* nothing it is shown: it checks the arguments against the commitment and    *)
(* computes the digest it signs.  The command signs the row it printed; the   *)
(* console lists a second time when the button is pressed and signs the row   *)
(* of that second list.                                                       *)
(*                                                                            *)
(* Held calls and their execution are the gateway's (module Gateway); here    *)
(* they are cut down to what an approver can see or change.  Time is in units *)
(* of the allowed clock skew.                                                 *)
EXTENDS Integers, Sequences, FiniteSets

CONSTANTS
    Approver,   \* identities with a trusted approver key
    Principal,  \* principals agents act for; an approver may be one
    Args,       \* argument values
    Handler,    \* goroutines of the server that may serve list requests at once
    Skew,       \* MaxClockSkew and ApprovalLimits.ClockSkew
    MaxTTL,     \* ApprovalLimits.MaxTTL
    TTL,        \* lifetimes approvers ask for with --ttl
    Drift,      \* how far an approver's clock may be ahead of Warden's
    MaxDelay,   \* longest time from reading the clock to holding the nonce lock
    Forging,    \* whether list replies may misstate a call
    MaxTime, MaxCalls, MaxLists \* bounds of an instance

ASSUME ApproversAssumption ==
    /\ Skew \in Nat /\ MaxTTL \in Nat /\ TTL \subseteq Nat \ {0}
    /\ Drift \subseteq Int
    /\ MaxDelay \in 0..Skew
    /\ Forging \in BOOLEAN
    /\ MaxTime \in Nat /\ MaxCalls \in Nat /\ MaxLists \in Nat

VARIABLES
    now,        \* Warden's clock
    calls,      \* decisions that require approval, in order (on the chain)
    recorded,   \* approval receipts (on the chain)
    held,       \* Gateway.pending: what is done with each call
    answer,     \* Gateway.pending: the approval of each held call, if any
    nonces,     \* Server.nonces: nonce -> when it may be forgotten
    served,     \* how often this server process has accepted each nonce
    handler,    \* list requests being served
    sent,       \* signed list requests anybody may deliver
    client,     \* the session of each approver
    statements  \* signed statements anybody may deliver

vars == <<now, calls, recorded, held, answer, nonces, served, handler, sent,
          client, statements>>

server == <<calls, recorded, held, answer, nonces, served, handler>>

Dec == 1..MaxCalls
Nonce == 1..MaxLists
Call == [who : Principal, args : Args]

NoAnswer == [outcome |-> "none", approver |-> "nobody", expires |-> 0]

\* A row of a list reply: the call as shown, and the commitment of its decision.
\* A commitment is named by the arguments that open it.
Row == [who : Principal, args : Args, commit : Args]
RowOf(c) == [who |-> c.who, args |-> c.args, commit |-> c.args]
NoRow == [who |-> "nobody", args |-> "none", commit |-> "none"]

NoRows == [d \in {} |-> NoRow]
Away == [pc |-> "idle", via |-> "command", nonce |-> 0, rows |-> NoRows, dec |-> 0,
         seen |-> NoRow, outcome |-> "none", off |-> 0]
Waiting == [pc |-> "idle", rq |-> [approver |-> "nobody", nonce |-> 0, ts |-> 0], at |-> 0]

Init ==
    /\ now = 0 /\ calls = <<>> /\ recorded = {}
    /\ held = [d \in Dec |-> "none"] /\ answer = [d \in Dec |-> NoAnswer]
    /\ nonces = [n \in {} |-> 0] /\ served = [n \in Nonce |-> 0]
    /\ handler = [h \in Handler |-> Waiting]
    /\ sent = {} /\ statements = {}
    /\ client = [a \in Approver |-> Away]
-----------------------------------------------------------------------------
(* The gateway's side of a held call.                                         *)

\* Call: a decision that requires approval is recorded and the call is held.
Hold(c) ==
    /\ Len(calls) < MaxCalls
    /\ calls' = Append(calls, c)
    /\ held' = [held EXCEPT ![Len(calls) + 1] = "waiting"]
    /\ UNCHANGED <<now, recorded, answer, nonces, served, handler, sent, client, statements>>

\* Resume: an approved call whose approval has not expired starts to run.
Resume(d) ==
    /\ held[d] = "waiting"
    /\ answer[d].outcome = "approved" /\ now < answer[d].expires
    /\ held' = [held EXCEPT ![d] = "running"]
    /\ UNCHANGED <<now, calls, recorded, answer, nonces, served, handler, sent, client,
                   statements>>

\* The run ends: the call is dropped, or waits again when its result could not
\* be recorded.
Finish(d, outcome) ==
    /\ held[d] = "running"
    /\ held' = [held EXCEPT ![d] = outcome]
    /\ UNCHANGED <<now, calls, recorded, answer, nonces, served, handler, sent, client,
                   statements>>
-----------------------------------------------------------------------------
(* The server.                                                                *)

\* authenticate, up to the lock: the signed request is read, and its timestamp
\* compared with a clock read here and used again under the lock.
Receive(h, rq) ==
    /\ handler[h].pc = "idle"
    /\ rq \in sent
    /\ now - Skew <= rq.ts /\ rq.ts <= now + Skew
    /\ handler' = [handler EXCEPT ![h] = [pc |-> "checked", rq |-> rq, at |-> now]]
    /\ UNCHANGED <<now, calls, recorded, held, answer, nonces, served, sent, client, statements>>

\* A server that forgets a nonce when its timestamp leaves the window.
ForgetAt_Window(rq) == rq.ts + Skew

\* When a consumed nonce may be forgotten.
ForgetAt(rq) == rq.ts + 2 * Skew

\* authenticate, under the lock: nonces that may be forgotten are dropped, the
\* request's is refused if it is still there, and remembered if it is not.
Authenticate(h) ==
    /\ handler[h].pc = "checked"
    /\ LET rq   == handler[h].rq
           kept == {n \in DOMAIN nonces : ~(handler[h].at > nonces[n])}
       IN  IF rq.nonce \in kept
           THEN /\ nonces' = [n \in kept |-> nonces[n]]
                /\ handler' = [handler EXCEPT ![h] = Waiting]
                /\ UNCHANGED served
           ELSE /\ nonces' = [n \in kept \cup {rq.nonce} |->
                               IF n = rq.nonce THEN ForgetAt(rq) ELSE nonces[n]]
                /\ handler' = [handler EXCEPT ![h].pc = "authenticated"]
                /\ served' = [served EXCEPT ![rq.nonce] = @ + 1]
    /\ UNCHANGED <<now, calls, recorded, held, answer, sent, client, statements>>

\* ListPending: the calls that wait and do not run, each with its opening.
ListPending == [d \in {e \in Dec : held[e] = "waiting"} |-> RowOf(calls[d])]

\* What list sends: the pending calls, or a reply that misstates one of them.
Replies ==
    {ListPending} \cup
    (IF Forging THEN {[ListPending EXCEPT ![d] = r] : d \in DOMAIN ListPending, r \in Row}
                ELSE {})

\* A client that does not open the commitment.
Check_Trusting(r) == TRUE

\* Check: the arguments shown open the commitment.
Check(r) == r.args = r.commit

\* What List makes of a reply: every row must pass Check.  The console's second
\* list goes on to the row of the button that was pressed; nobody looks at it.
Listed(c, rows) ==
    IF \E d \in DOMAIN rows : ~Check(rows[d]) THEN Away
    ELSE CASE c.pc = "asked"                          -> [c EXCEPT !.pc = "shown", !.rows = rows]
           [] c.pc = "again" /\ c.dec \in DOMAIN rows -> [c EXCEPT !.pc = "ready", !.rows = rows]
           [] OTHER                                   -> Away

\* list, after authenticate: the reply goes to whoever sent this copy of the
\* request, which is the client only while it waits for it.
Reply(h, rows) ==
    /\ handler[h].pc = "authenticated"
    /\ rows \in Replies
    /\ handler' = [handler EXCEPT ![h] = Waiting]
    /\ LET a == handler[h].rq.approver IN
       client' = IF client[a].pc \in {"asked", "again"} /\ client[a].nonce = handler[h].rq.nonce
                 THEN [client EXCEPT ![a] = Listed(client[a], rows)]
                 ELSE client
    /\ UNCHANGED <<now, calls, recorded, held, answer, nonces, served, sent, statements>>

\* Accept without the limit on the lifetime.
Accept_AnyTTL(st) ==
    LET c == calls[st.dec] IN
    /\ st.who = c.who /\ st.commit = c.args
    /\ st.approver # c.who
    /\ st.ts <= now + Skew
    /\ now < st.expires

\* approval.Accept on the held decision: the digest is of the same task, actor
\* and commitment, the approver is somebody else, and the times are in range.
Accept(st) ==
    LET c == calls[st.dec] IN
    /\ st.who = c.who /\ st.commit = c.args
    /\ st.approver # c.who
    /\ st.ts <= now + Skew /\ st.expires - st.ts <= MaxTTL
    /\ now < st.expires

\* submit and Gateway.Approve: a statement, delivered once or again, answers a
\* held call that has no answer yet.
Submit(st) ==
    /\ held[st.dec] # "none" /\ answer[st.dec].outcome = "none"
    /\ Accept(st)
    /\ answer' = [answer EXCEPT ![st.dec] = [outcome |-> st.outcome, approver |-> st.approver,
                                             expires |-> st.expires]]
    /\ recorded' = recorded \cup {[st |-> st, at |-> now]}
    /\ UNCHANGED <<now, calls, held, nonces, served, handler, sent, client, statements>>

\* The process stops and starts: held calls and nonces were in memory.
Restart ==
    /\ held' = [d \in Dec |-> "none"] /\ answer' = [d \in Dec |-> NoAnswer]
    /\ nonces' = [n \in {} |-> 0] /\ served' = [n \in Nonce |-> 0]
    /\ handler' = [h \in Handler |-> Waiting]
    /\ UNCHANGED <<now, calls, recorded, sent, client, statements>>
-----------------------------------------------------------------------------
(* The clients.                                                               *)

\* List: a request with a fresh nonce, signed at the approver's own time, which
\* is c.off ahead of Warden's throughout a session.
SendList(a, c) ==
    LET n == Cardinality(sent) + 1 IN
    /\ n \in Nonce
    /\ sent' = sent \cup {[approver |-> a, nonce |-> n, ts |-> now + c.off]}
    /\ client' = [client EXCEPT ![a] = [c EXCEPT !.nonce = n]]

\* cmdApprove, or the console's state page: ask what is pending.
Ask(a, via, e) ==
    /\ client[a].pc = "idle"
    /\ SendList(a, [Away EXCEPT !.pc = "asked", !.via = via, !.off = e])
    /\ UNCHANGED <<now, server, statements>>

\* cmdApprove: the row is printed and the approver says yes.
Confirm(a, d, outcome) ==
    /\ client[a].pc = "shown" /\ client[a].via = "command"
    /\ d \in DOMAIN client[a].rows
    /\ client' = [client EXCEPT ![a].pc = "ready", ![a].dec = d, ![a].outcome = outcome,
                                ![a].seen = client[a].rows[d]]
    /\ UNCHANGED <<now, server, sent, statements>>

\* console.approve: the button names a decision; the handler lists again.
Press(a, d, outcome) ==
    /\ client[a].pc = "shown" /\ client[a].via = "console"
    /\ d \in DOMAIN client[a].rows
    /\ SendList(a, [client[a] EXCEPT !.pc = "again", !.dec = d, !.outcome = outcome,
                                     !.seen = client[a].rows[d], !.rows = NoRows])
    /\ UNCHANGED <<now, server, statements>>

\* The statement Sign makes from a row: its digest covers the call's actor and
\* commitment as checked here, never a digest the server sent.  seen and via record
\* what the approver had in front of them, and where.
Statement(a, c, ttl) ==
    LET r == c.rows[c.dec]  ts == now + c.off IN
    [approver |-> a, dec |-> c.dec, who |-> r.who, commit |-> r.commit,
     outcome |-> c.outcome, ts |-> ts, expires |-> ts + ttl,
     seen |-> c.seen, via |-> c.via]

\* Sign, and hand the statement to the network.
Sign(a, ttl) ==
    /\ client[a].pc = "ready"
    /\ Check(client[a].rows[client[a].dec])
    /\ statements' = statements \cup {Statement(a, client[a], ttl)}
    /\ client' = [client EXCEPT ![a] = Away]
    /\ UNCHANGED <<now, server, sent>>

\* An error reply, a lost one, a timeout, an "n" at the prompt.
GiveUp(a) ==
    /\ client[a].pc # "idle"
    /\ client' = [client EXCEPT ![a] = Away]
    /\ UNCHANGED <<now, server, sent, statements>>
-----------------------------------------------------------------------------
\* Time passes; no handler is kept from the lock for longer than MaxDelay.
Tick ==
    /\ now < MaxTime
    /\ \A h \in Handler : handler[h].pc = "checked" => now < handler[h].at + MaxDelay
    /\ now' = now + 1
    /\ UNCHANGED <<server, sent, client, statements>>

Next ==
    \/ \E c \in Call : Hold(c)
    \/ \E d \in Dec : Resume(d)
    \/ \E d \in Dec, outcome \in {"none", "waiting"} : Finish(d, outcome)
    \/ \E h \in Handler, rq \in sent : Receive(h, rq)
    \/ \E h \in Handler : Authenticate(h)
    \/ \E h \in Handler, rows \in Replies : Reply(h, rows)
    \/ \E st \in statements : Submit(st)
    \/ \E a \in Approver, via \in {"command", "console"}, e \in Drift : Ask(a, via, e)
    \/ \E a \in Approver, d \in Dec, outcome \in {"approved", "rejected"} :
         Confirm(a, d, outcome) \/ Press(a, d, outcome)
    \/ \E a \in Approver, ttl \in TTL : Sign(a, ttl)
    \/ \E a \in Approver : GiveUp(a)
    \/ Restart \/ Tick

Spec == Init /\ [][Next]_vars
-----------------------------------------------------------------------------
\* A signed list request is answered at most once by a server process, however
\* often it is delivered and whichever way two deliveries interleave with the
\* clock (Server.authenticate compares times before it takes the lock, and
\* forgets nonces).
ListedOnce == \A n \in Nonce : served[n] <= 1

\* An approval receipt that came of `warden approve` is about the call its approver
\* had in front of them, the same actor and the same arguments, whatever the server
\* put into its replies (cmdApprove, Client.Sign and approval.Accept together).
ShownIsRecorded ==
    \A r \in recorded : r.st.via = "command" => r.st.seen = RowOf(calls[r.st.dec])

\* "An approver only signs the call they saw", as the package comment of approverapi
\* says of every client.  The console's approve handler lists a second time and signs a
\* row of that list.
SignsTheCallTheySaw ==
    \A st \in statements : st.seen.who = st.who /\ st.seen.args = st.commit

\* A call starts to run only under an approval of its own decision that Warden
\* recorded less than MaxTTL + Skew ago, whatever the approver's clock and the
\* lifetime they asked for, and however late the statement was delivered.
AuthorityLapses ==
    [][\A d \in Dec : held[d] = "waiting" /\ held'[d] = "running" =>
         \E r \in recorded : /\ r.st.dec = d /\ r.st.outcome = "approved"
                             /\ now < r.at + MaxTTL + Skew]_vars
=============================================================================
