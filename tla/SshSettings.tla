---------------------------- MODULE SshSettings -----------------------------
(***************************************************************************)
(* The SSH settings of one PC: registration and editing of the PC, the     *)
(* settings row and its revision, key generation, the scan and             *)
(* confirmation of a host key, and the connection test that marks the      *)
(* settings verified.  Every transaction is one step; the endpoints run in *)
(* a thread pool, so anything may happen between two transactions, above   *)
(* all during the seconds that ssh and ssh-keyscan take.                   *)
(*                                                                         *)
(* Rows of other PCs are never touched (every statement has WHERE pc_id =  *)
(* ?), so one pc_id is enough.                                             *)
(***************************************************************************)
EXTENDS Naturals

CONSTANTS
  Ip, Login,     \* addresses; (username, port) pairs
  HostKey,       \* host keys ssh-keyscan may return
  Tester,        \* threads running a connection test
  None,
  Incarnations,  \* how often settings may be created for this pc_id: 1 means
                 \* that a deleted PC is not registered and set up again
  MaxEpoch       \* bound on the changes made to PC and settings

ASSUME SshAssumption ==
  /\ Incarnations \in Nat \ {0}
  /\ MaxEpoch \in Nat
  /\ None \notin Ip \cup Login \cup HostKey

VARIABLES
  pc,          \* the pcs row: its address and runtime status
  cfg,         \* the pc_ssh_settings row; key 0 when there is none
  created,     \* rows created so far: the key_id of the latest one
  epoch,       \* changes to the settings row, for the bound and the properties
  keyFile,     \* keyFile[k]: the halves in the key directory of k, each named
               \* by the key pair it belongs to: the nth placed there; 0: no file
  generating,  \* generating[k]: how far the holder of the directory's lock is
  known,       \* known_hosts files, named by key directory and host key
  scan,        \* the host key scan of the administrator's browser
  tester       \* tester[t]: the connection test running on thread t

sshVars == <<pc, cfg, created, epoch, keyFile, generating, known, scan, tester>>

Key == 1 .. Incarnations
Status == {"online", "offline", "other"}
NoPc == [ip |-> None, status |-> "other"]

\* testedAs and scannedAs are history: the connection the recorded test used
\* and the settings the confirmed host key was scanned under.
NoCfg == [key |-> 0, login |-> None, enabled |-> FALSE, hostKey |-> None,
          verifiedIp |-> None, rev |-> 0, testedAs |-> None, scannedAs |-> None]

\* ShutdownSshSettings: identity_file stands for the key, known_hosts_file for
\* the key and the host key.
Conn(ip) == [ip |-> ip, login |-> cfg.login, key |-> cfg.key,
             hostKey |-> cfg.hostKey, rev |-> cfg.rev]
Tested(c) == [ip |-> c.ip, login |-> c.login, key |-> c.key, hostKey |-> c.hostKey]

NoConn == [ip |-> None, login |-> None, key |-> 0, hostKey |-> None, rev |-> 0]
NoFiles == [private |-> 0, public |-> 0]
NoScan == [stage |-> "none", ip |-> None, rev |-> 0, hostKey |-> None, as |-> None]
NoTest == [stage |-> "none", conn |-> NoConn]

Registered == pc.ip # None
HasCfg == cfg.key # 0
Changed == epoch < MaxEpoch /\ epoch' = epoch + 1

Init ==
  /\ pc = NoPc
  /\ cfg = NoCfg
  /\ created = 0
  /\ epoch = 0
  /\ keyFile = [k \in Key |-> NoFiles]
  /\ generating = [k \in Key |-> "no"]
  /\ known = {}
  /\ scan = NoScan
  /\ tester = [t \in Tester |-> NoTest]
-----------------------------------------------------------------------------
Unverified(row) == [row EXCEPT !.verifiedIp = None, !.testedAs = None]

\* Plausible bug: the address changes without a new revision.
UpsertPcKeepsRevision(ip, s) ==
  /\ pc' = [ip |-> ip, status |-> s]
  /\ IF Registered /\ pc.ip # ip /\ HasCfg
     THEN Changed /\ cfg' = Unverified(cfg)
     ELSE UNCHANGED <<cfg, epoch>>
  /\ UNCHANGED <<created, keyFile, generating, known, scan, tester>>

\* upsert_pc: one transaction creates the PC or edits it, the test result of
\* another address is withdrawn. An edit that read the PC before it was deleted
\* registers it again, with the status it read.
UpsertPc(ip, s) ==
  /\ pc' = [ip |-> ip, status |-> s]
  /\ IF Registered /\ pc.ip # ip /\ HasCfg
     THEN /\ Changed
          /\ cfg' = [Unverified(cfg) EXCEPT !.rev = @ + 1]
     ELSE UNCHANGED <<cfg, epoch>>
  /\ UNCHANGED <<created, keyFile, generating, known, scan, tester>>

\* delete_pc_by_id removes the settings and the PC in one transaction.
DeletePc ==
  /\ Registered
  /\ pc' = NoPc
  /\ cfg' = NoCfg
  /\ IF HasCfg THEN Changed ELSE UNCHANGED epoch
  /\ UNCHANGED <<created, keyFile, generating, known, scan, tester>>

\* Status refreshes, WOL and the monitor write the runtime status.
StatusChanges(s) ==
  /\ Registered
  /\ pc' = [pc EXCEPT !.status = s]
  /\ UNCHANGED <<cfg, created, epoch, keyFile, generating, known, scan, tester>>

\* Plausible bug: a new port or user keeps the confirmed host key and test.
SaveSettingsKeepsTest(login, enabled) ==
  /\ Registered
  /\ Changed
  /\ \/ /\ ~HasCfg
        /\ created < Incarnations
        /\ created' = created + 1
        /\ cfg' = [NoCfg EXCEPT !.key = created + 1, !.login = login,
                                !.enabled = enabled, !.rev = 1]
     \/ /\ HasCfg
        /\ cfg' = [cfg EXCEPT !.login = login, !.enabled = enabled, !.rev = @ + 1]
        /\ UNCHANGED created
  /\ UNCHANGED <<pc, keyFile, generating, known, scan, tester>>

\* save_pc_ssh_settings: INSERT ... WHERE EXISTS (the PC) ON CONFLICT UPDATE.
SaveSettings(login, enabled) ==
  /\ Registered
  /\ Changed
  /\ \/ /\ ~HasCfg
        /\ created < Incarnations
        /\ created' = created + 1
        /\ cfg' = [NoCfg EXCEPT !.key = created + 1, !.login = login,
                                !.enabled = enabled, !.rev = 1]
     \/ /\ HasCfg
        /\ cfg' = [(IF login = cfg.login THEN cfg
                    ELSE [Unverified(cfg) EXCEPT !.hostKey = None, !.scannedAs = None])
                   EXCEPT !.login = login, !.enabled = enabled, !.rev = @ + 1]
        /\ UNCHANGED created
  /\ UNCHANGED <<pc, keyFile, generating, known, scan, tester>>
-----------------------------------------------------------------------------
\* Plausible bug: whatever the directory holds, a new pair is made.
GenerateKeyAgain ==
  /\ Registered /\ HasCfg
  /\ generating[cfg.key] = "no"
  /\ generating' = [generating EXCEPT ![cfg.key] = "keygen"]
  /\ UNCHANGED <<pc, cfg, created, epoch, keyFile, known, scan, tester>>

\* generate_pc_ssh_key takes the lock of the key directory and lets ssh-keygen
\* make a new pair, unless either file exists: a pair is kept as it is, half a
\* pair is refused.
GenerateKey ==
  /\ Registered /\ HasCfg
  /\ generating[cfg.key] = "no"
  /\ keyFile[cfg.key] = NoFiles
  /\ generating' = [generating EXCEPT ![cfg.key] = "keygen"]
  /\ UNCHANGED <<pc, cfg, created, epoch, keyFile, known, scan, tester>>

\* os.replace puts the private half of the new pair in place, whatever was there
\* before, ...
PlacePrivate(k) ==
  /\ generating[k] = "keygen"
  /\ keyFile' = [keyFile EXCEPT ![k].private = @ + 1]
  /\ generating' = [generating EXCEPT ![k] = "placing"]
  /\ UNCHANGED <<pc, cfg, created, epoch, known, scan, tester>>

\* ... then the public half of the same pair.
PlacePublic(k) ==
  /\ generating[k] = "placing"
  /\ keyFile' = [keyFile EXCEPT ![k].public = keyFile[k].private]
  /\ generating' = [generating EXCEPT ![k] = "no"]
  /\ UNCHANGED <<pc, cfg, created, epoch, known, scan, tester>>

\* ssh-keygen or an os.replace fails: the lock is released, what is placed stays.
GenerationFails(k) ==
  /\ generating[k] # "no"
  /\ generating' = [generating EXCEPT ![k] = "no"]
  /\ UNCHANGED <<pc, cfg, created, epoch, keyFile, known, scan, tester>>

\* scan_pc_host_key reads the PC, ...
ScanReadPc ==
  /\ Registered
  /\ scan' = [NoScan EXCEPT !.stage = "reading", !.ip = pc.ip]
  /\ UNCHANGED <<pc, cfg, created, epoch, keyFile, generating, known, tester>>

\* ... then the settings, and the network answers with some host key.
ScanHostKey(h) ==
  /\ scan.stage = "reading"
  /\ scan' = IF HasCfg
             THEN [scan EXCEPT !.stage = "candidate", !.rev = cfg.rev, !.hostKey = h,
                               !.as = [key |-> cfg.key, login |-> cfg.login]]
             ELSE NoScan
  /\ UNCHANGED <<pc, cfg, created, epoch, keyFile, generating, known, tester>>

\* Plausible bug: the optimistic lock compares the address alone.
MatchesIp(ip, rev) == HasCfg /\ pc.ip = ip

\* WHERE revision = rev AND EXISTS (a PC with this address).
Matches(ip, rev) == HasCfg /\ cfg.rev = rev /\ pc.ip = ip

\* confirm_pc_host_key, save_confirmed_host_key: the administrator has compared
\* the fingerprint of the candidate, perhaps long after the scan.
ConfirmHostKey ==
  /\ scan.stage = "candidate"
  /\ Registered
  /\ IF Matches(scan.ip, scan.rev)
     THEN /\ Changed
          /\ cfg' = [Unverified(cfg) EXCEPT !.hostKey = scan.hostKey, !.rev = @ + 1,
                                            !.scannedAs = scan.as]
          /\ scan' = [NoScan EXCEPT !.stage = "saved"]
     ELSE scan' = NoScan /\ UNCHANGED <<cfg, epoch>>
  /\ UNCHANGED <<pc, created, keyFile, generating, known, tester>>

\* The row is read again and its host key, whichever it is now, is written to
\* the file that its content names.
WriteKnownHosts ==
  /\ scan.stage = "saved"
  /\ known' = IF HasCfg /\ cfg.hostKey # None
              THEN known \cup {<<cfg.key, cfg.hostKey>>} ELSE known
  /\ scan' = NoScan
  /\ UNCHANGED <<pc, cfg, created, epoch, keyFile, generating, tester>>
-----------------------------------------------------------------------------
\* load_pc_ssh_connection without require_verified.
Loadable ==
  /\ HasCfg
  /\ keyFile[cfg.key].private # 0
  /\ cfg.hostKey # None
  /\ <<cfg.key, cfg.hostKey>> \in known

\* verify_pc_ssh_connection: read the PC, ...
TestReadPc(t) ==
  /\ tester[t].stage = "none"
  /\ Registered
  /\ tester' = [tester EXCEPT ![t] = [stage |-> "loading",
                                      conn |-> [NoConn EXCEPT !.ip = pc.ip]]]
  /\ UNCHANGED <<pc, cfg, created, epoch, keyFile, generating, known, scan>>

\* ... load the connection (an error here records nothing), ...
TestLoad(t) ==
  /\ tester[t].stage = "loading"
  /\ tester' = [tester EXCEPT ![t] =
                  IF Loadable THEN [stage |-> "connecting", conn |-> Conn(@.conn.ip)]
                  ELSE NoTest]
  /\ UNCHANGED <<pc, cfg, created, epoch, keyFile, generating, known, scan>>

\* ... connect: ssh fails or answers unexpectedly, ...
TestFails(t) ==
  /\ tester[t].stage = "connecting"
  /\ tester' = [tester EXCEPT ![t].stage = "failed"]
  /\ UNCHANGED <<pc, cfg, created, epoch, keyFile, generating, known, scan>>

\* ... or it answers and record_ssh_verification(True) stores the result if the
\* settings still match. Otherwise the test counts as failed.
TestSucceeds(t) ==
  LET c == tester[t].conn
  IN /\ tester[t].stage = "connecting"
     /\ IF Matches(c.ip, c.rev)
        THEN /\ cfg' = [cfg EXCEPT !.verifiedIp = c.ip, !.testedAs = Tested(c)]
             /\ tester' = [tester EXCEPT ![t].stage = "reached"]
        ELSE /\ tester' = [tester EXCEPT ![t].stage = "failed"]
             /\ UNCHANGED cfg
     /\ UNCHANGED <<pc, created, epoch, keyFile, generating, known, scan>>

\* record_ssh_verification(False), in the except clause.
RecordFailure(t) ==
  LET c == tester[t].conn
  IN /\ tester[t].stage = "failed"
     /\ cfg' = IF Matches(c.ip, c.rev) THEN Unverified(cfg) ELSE cfg
     /\ tester' = [tester EXCEPT ![t] = NoTest]
     /\ UNCHANGED <<pc, created, epoch, keyFile, generating, known, scan>>

\* update_runtime_status(online), if the PC is still registered.
MarkOnline(t) ==
  /\ tester[t].stage = "reached"
  /\ pc' = IF Registered THEN [pc EXCEPT !.status = "online"] ELSE pc
  /\ tester' = [tester EXCEPT ![t] = NoTest]
  /\ UNCHANGED <<cfg, created, epoch, keyFile, generating, known, scan>>

\* The server stops: threads are gone, rows and files stay, and so does a
\* candidate the browser is still showing.
Restart ==
  /\ generating' = [k \in Key |-> "no"]
  /\ scan' = IF scan.stage = "candidate" THEN scan ELSE NoScan
  /\ tester' = [t \in Tester |-> NoTest]
  /\ UNCHANGED <<pc, cfg, created, epoch, keyFile, known>>
-----------------------------------------------------------------------------
AdminStep ==
  \/ \E ip \in Ip, s \in Status : UpsertPc(ip, s)
  \/ DeletePc
  \/ \E s \in Status : StatusChanges(s)
  \/ \E login \in Login, enabled \in BOOLEAN : SaveSettings(login, enabled)
  \/ GenerateKey
  \/ \E k \in Key : PlacePrivate(k) \/ PlacePublic(k) \/ GenerationFails(k)
  \/ ScanReadPc
  \/ \E h \in HostKey : ScanHostKey(h)
  \/ ConfirmHostKey
  \/ WriteKnownHosts

TestStep(t) ==
  \/ TestReadPc(t) \/ TestLoad(t) \/ TestFails(t) \/ TestSucceeds(t)
  \/ RecordFailure(t) \/ MarkOnline(t)

Next == AdminStep \/ Restart \/ \E t \in Tester : TestStep(t)

Spec == Init /\ [][Next]_sshVars
-----------------------------------------------------------------------------
ConnType == [ip: Ip \cup {None}, login: Login \cup {None}, key: 0 .. Incarnations,
             hostKey: HostKey \cup {None}, rev: Nat]
TestedType == [ip: Ip, login: Login, key: Key, hostKey: HostKey \cup {None}]
ScannedType == [key: Key, login: Login]
CfgType == [key: 0 .. Incarnations, login: Login \cup {None}, enabled: BOOLEAN,
            hostKey: HostKey \cup {None}, verifiedIp: Ip \cup {None}, rev: Nat,
            testedAs: TestedType \cup {None}, scannedAs: ScannedType \cup {None}]

TypeOK ==
  /\ pc \in [ip: Ip \cup {None}, status: Status]
  /\ cfg \in CfgType
  /\ created \in 0 .. Incarnations
  /\ epoch \in 0 .. MaxEpoch
  /\ keyFile \in [Key -> [private: Nat, public: Nat]]
  /\ generating \in [Key -> {"no", "keygen", "placing"}]
  /\ known \subseteq Key \X HostKey
  /\ scan \in [stage: {"none", "reading", "candidate", "saved"}, ip: Ip \cup {None},
               rev: Nat, hostKey: HostKey \cup {None}, as: ScannedType \cup {None}]
  /\ tester \in [Tester -> [stage: {"none", "loading", "connecting", "failed", "reached"},
                            conn: ConnType]]

\* Settings never outlive their PC and a recorded test is always one of the
\* PC's present address, whatever edits, deletions and tests interleave
\* (upsert_pc and delete_pc_by_id act on both tables in one transaction).
VerifiedForPresentPc ==
  /\ HasCfg => Registered
  /\ cfg.verifiedIp # None => cfg.verifiedIp = pc.ip

\* A recorded test was a test of exactly the settings now stored: user, port,
\* key, host key and address (docstring of record_ssh_verification).
VerifiedWasTested ==
  cfg.verifiedIp # None => cfg.testedAs = Tested(Conn(pc.ip))

\* So it is while the settings row is the first of its PC.
FirstVerifiedWasTested == created = 1 => VerifiedWasTested

\* Verified settings can be loaded, while the row is the first of its PC: the
\* host key is confirmed and its file and the private key exist, so a shutdown
\* cannot be refused for want of them.
VerifiedIsLoadable == created = 1 /\ cfg.verifiedIp # None => Loadable

\* A confirmed host key was scanned under the user and port now stored and the
\* same settings row, while that row is the first of its PC (docstring of
\* save_confirmed_host_key).
HostKeyWasScannedHere ==
  created = 1 /\ cfg.hostKey # None => cfg.scannedAs = [key |-> cfg.key, login |-> cfg.login]

\* A key, once placed, is never replaced or removed by another, and the public
\* half shown for registration at the PC is the half of the private key that
\* connections use, although a generation may be cut off between the two files
\* and asked for again (generate_pc_ssh_key: 既存の鍵は上書きしない).
KeyNeverReplaced ==
  [][\A k \in Key :
       /\ keyFile[k].private # 0 => keyFile'[k].private = keyFile[k].private
       /\ keyFile[k].public # 0 => keyFile'[k].public = keyFile[k].public
       /\ keyFile'[k].public \in {0, keyFile'[k].private}]_sshVars

\* Types, and what the settings row and its PC owe each other: a verification
\* is one of the present address and, for the first settings of the PC, of
\* these settings, which can be loaded (upsert_pc, record_ssh_verification).
SettingsHold ==
  /\ TypeOK
  /\ VerifiedForPresentPc
  /\ FirstVerifiedWasTested
  /\ VerifiedIsLoadable
=============================================================================
