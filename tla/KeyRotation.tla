----------------------------- MODULE KeyRotation -----------------------------
(***************************************************************************)
(* warden rotate-key (cmd/warden/rotate.go) beside warden serve, over one  *)
(* receipt store: the private key files, the trust file keys.json and the  *)
(* configuration.                                                          *)
(*                                                                         *)
(* A process is a command that an operator started; its steps are the      *)
(* writes to the disk that other processes, or a crash, can come between.  *)
(* A failed step ends the command with an error.  The certificate authority*)
(* and the certificates are left out, except that writing the certificate  *)
(* file may fail.  MaxStarts bounds how often a command is started.        *)
(***************************************************************************)
EXTENDS ReceiptStore

CONSTANTS
    Genesis,    \* the key that warden init created
    TrustReads, \* whether the trust file can be read: a subset of BOOLEAN
    MaxStarts   \* bound on the number of commands started

ASSUME RotationAssumption ==
    Genesis \in Kid /\ TrustReads \subseteq BOOLEAN /\ MaxStarts \in Nat

VARIABLES
    keyfile,    \* pki/receipt-<kid>.key of each key id: none, partial or good
    trust,      \* the key ids in keys.json
    cfg,        \* the key id in the configuration
    cmd,        \* what each process is doing
    starts      \* how many commands were started

fileVars == <<keyfile, trust, cfg>>
vars == <<rows, current, handle, lines, keyfile, trust, cfg, cmd, starts>>

Off == [pc |-> "off", kid |-> NoKid, to |-> NoKid, ts |-> 0]

TypeOK ==
    /\ StoreTypeOK
    /\ keyfile \in [Kid -> {"none", "partial", "good"}]
    /\ trust \subseteq Kid
    /\ cfg \in Kid
    /\ cmd \in [Proc -> [ pc  : {"off", "serve", "key", "cert", "open", "rotate",
                                 "trust", "config"},
                          kid : Kid \cup {NoKid}, to : Kid \cup {NoKid}, ts : Nat ]]
    /\ starts \in Nat

Init ==
    /\ StoreInit
    /\ keyfile = [k \in Kid |-> "none"]
    /\ trust = {Genesis}
    /\ cfg = Genesis
    /\ cmd = [p \in Proc |-> Off]
    /\ starts = 0

\* The private key of k can be read.  The first key has a file of its own, which
\* rotate-key does not touch.
HasKey(k) == k = Genesis \/ keyfile[k] = "good"

Goto(p, pc) == cmd' = [cmd EXCEPT ![p].pc = pc]

\* The process ends, its store handle with it.
Exit(p) ==
    /\ cmd' = [cmd EXCEPT ![p] = Off]
    /\ handle' = [handle EXCEPT ![p] = Closed]
    /\ UNCHANGED <<rows, current, lines, starts>>

-----------------------------------------------------------------------------
(* warden serve *)

\* The key that the configuration names is read, and the store opened with it.
Serve(p) ==
    /\ cmd[p].pc = "off"
    /\ starts < MaxStarts
    /\ HasKey(cfg)
    /\ Opens(p, cfg)
    /\ Goto(p, "serve")
    /\ starts' = starts + 1
    /\ UNCHANGED fileVars

ServeAppend(p, ts) ==
    /\ cmd[p].pc = "serve"
    /\ AppendDone(p, ts) \/ AppendFailed(p, ts)
    /\ UNCHANGED <<keyfile, trust, cfg, cmd, starts>>

-----------------------------------------------------------------------------
(* warden rotate-key *)

\* The configuration and the outgoing key are read.  A key id that is in the
\* trust file has been used; a trust file that cannot be read says nothing.
RotateBegin(p, to, ts) ==
    /\ cmd[p].pc = "off"
    /\ starts < MaxStarts
    /\ to # cfg
    /\ \E reads \in TrustReads : reads => to \notin trust
    /\ HasKey(cfg)
    /\ cmd' = [cmd EXCEPT ![p] = [pc |-> "key", kid |-> cfg, to |-> to, ts |-> ts]]
    /\ starts' = starts + 1
    /\ UNCHANGED <<rows, current, handle, lines, keyfile, trust, cfg>>

\* Faulty variant: an existing key file is overwritten.
WriteKey_Over(p) ==
    /\ cmd[p].pc = "key"
    /\ keyfile' = [keyfile EXCEPT ![cmd[p].to] = "good"]
    /\ Goto(p, "cert")
    /\ UNCHANGED <<rows, current, handle, lines, trust, cfg, starts>>

\* The key file is created.  An existing one is never overwritten, and a failed
\* write leaves what it wrote; neither is cleaned up.
WriteKey(p) ==
    /\ cmd[p].pc = "key"
    /\ LET to == cmd[p].to IN
       \/ /\ keyfile[to] = "none"
          /\ keyfile' = [keyfile EXCEPT ![to] = "good"]
          /\ Goto(p, "cert")
          /\ UNCHANGED <<rows, current, handle, lines, starts>>
       \/ /\ keyfile[to] = "none"
          /\ keyfile' = [keyfile EXCEPT ![to] = "partial"]
          /\ Exit(p)
       \/ /\ keyfile[to] # "none"
          /\ UNCHANGED keyfile
          /\ Exit(p)
    /\ UNCHANGED <<trust, cfg>>

\* A command that fails before the log has handed over removes its key file.
CleanUp(p) ==
    /\ keyfile' = [keyfile EXCEPT ![cmd[p].to] = "none"]
    /\ Exit(p)
    /\ UNCHANGED <<trust, cfg>>

WriteCert(p) ==
    /\ cmd[p].pc = "cert"
    /\ \/ /\ Goto(p, "open")
          /\ UNCHANGED <<rows, current, handle, lines, keyfile, trust, cfg, starts>>
       \/ CleanUp(p)

OpenStore(p) ==
    /\ cmd[p].pc = "open"
    /\ \/ /\ Opens(p, cmd[p].kid)
          /\ Goto(p, "rotate")
          /\ UNCHANGED <<keyfile, trust, cfg, starts>>
       \/ CleanUp(p)

\* Faulty variant: the configuration is saved before the trust file.
Rotate_SkipsTrust(p) ==
    /\ cmd[p].pc = "rotate"
    /\ RotateDone(p, cmd[p].to, cmd[p].ts)
    /\ Goto(p, "config")
    /\ UNCHANGED <<keyfile, trust, cfg, starts>>

\* Store.Rotate.  The attempt fails when the appender or the database refuses
\* it, and may fail anyway.
Rotate(p) ==
    /\ cmd[p].pc = "rotate"
    /\ \/ /\ RotateDone(p, cmd[p].to, cmd[p].ts)
          /\ Goto(p, "trust")
          /\ UNCHANGED <<keyfile, trust, cfg, starts>>
       \/ CleanUp(p)

\* Faulty variant: a failure after the handover cleans up as well.
AddTrustedKey_CleansUp(p) ==
    /\ cmd[p].pc = "trust"
    /\ CleanUp(p)

AddTrustedKey(p) ==
    /\ cmd[p].pc = "trust"
    /\ \/ /\ cmd[p].to \notin trust
          /\ trust' = trust \cup {cmd[p].to}
          /\ Goto(p, "config")
          /\ UNCHANGED <<rows, current, handle, lines, starts>>
       \/ /\ Exit(p)
          /\ UNCHANGED trust
    /\ UNCHANGED <<keyfile, cfg>>

SaveConfig(p) ==
    /\ cmd[p].pc = "config"
    /\ cfg' = cmd[p].to \/ UNCHANGED cfg
    /\ Exit(p)
    /\ UNCHANGED <<keyfile, trust>>

-----------------------------------------------------------------------------
(* The environment *)

\* A process is stopped or killed; nothing is cleaned up.
Die(p) ==
    /\ cmd[p].pc # "off"
    /\ Exit(p)
    /\ UNCHANGED fileVars

\* The operator repairs what a rotation left undone after the handover, while
\* no rotation is under way.
Repair ==
    /\ current \in Kid
    /\ \A p \in Proc : cmd[p].pc \in {"off", "serve"}
    /\ HasKey(current)
    /\ cfg' = current
    /\ trust' = trust \cup {current}
    /\ UNCHANGED <<rows, current, handle, lines, keyfile, cmd, starts>>

Next ==
    \/ \E p \in Proc :
         \/ Serve(p)
         \/ \E ts \in Time : ServeAppend(p, ts)
         \/ \E to \in Kid, ts \in Time : RotateBegin(p, to, ts)
         \/ WriteKey(p) \/ WriteCert(p) \/ OpenStore(p) \/ Rotate(p)
         \/ AddTrustedKey(p) \/ SaveConfig(p)
         \/ Die(p)
    \/ Repair

Spec == Init /\ [][Next]_vars

-----------------------------------------------------------------------------

\* The private key that the log signs with is on disk, whichever step of a
\* rotation fails or crashes and whatever else runs: losing it would end the
\* chain for good.
KeyOnHand == current # NoKid => HasKey(current)

\* No two rotations bring in the same key id, not even when the trust file did
\* not follow an earlier rotation or cannot be read.
KidsNamedOnce ==
    \A s, t \in DOMAIN rows : rows[s].to # NoKid /\ rows[t].to = rows[s].to => s = t

\* Once the configuration has caught up with the log, the trust file holds
\* every key the log has been signed with, so the local tools can verify it.
TrustFollows ==
    cfg = current => \A s \in DOMAIN rows : {rows[s].kid, rows[s].to} \ {NoKid} \subseteq trust
=============================================================================
