------------------------- MODULE SshSettingsProofs --------------------------
(***************************************************************************)
(* What the settings row promises, and what the shutdown job finds, for    *)
(* every set of addresses, logins, host keys and testing threads and for   *)
(* any number of changes.                                                  *)
(*                                                                         *)
(* The argument: key_id names one incarnation of the row and the revision  *)
(* one version of it (RowMoves), so whoever remembers both and finds both  *)
(* unchanged finds everything else unchanged.                              *)
(***************************************************************************)
EXTENDS ShutdownFlow, TLAPS

\* The settings row: it belongs to a PC, carries the newest key, and holds
\* either nothing or a version of at least 1.
RowHolds ==
  /\ HasCfg => Registered /\ cfg.key = created /\ cfg.login \in Login
  /\ ~HasCfg => cfg = NoCfg

\* Whoever read version rev of the row of this key read no future version.
ReadBefore(key, rev) ==
  /\ key \in 1 .. created
  /\ key = cfg.key => rev <= cfg.rev

\* The version that somebody read is still the one stored.
StillStored(key, rev) == key = cfg.key /\ rev = cfg.rev

\* A candidate was scanned under settings that existed; if their version is
\* still stored, so is their login.
CandidateHolds ==
  scan.stage = "candidate" =>
    /\ scan.as \in ScannedType
    /\ scan.hostKey \in HostKey
    /\ ReadBefore(scan.as.key, scan.rev)
    /\ StillStored(scan.as.key, scan.rev) => scan.as.login = cfg.login

\* A test that connects could load what it connects with; if the version it
\* read is still stored, so are its login and host key.
TestHolds(t) ==
  LET c == tester[t].conn
  IN /\ tester[t].stage # "none" => c.ip \in Ip
     /\ tester[t].stage \in {"connecting", "failed"} =>
          /\ c.login \in Login /\ c.hostKey \in HostKey
          /\ ReadBefore(c.key, c.rev)
          /\ StillStored(c.key, c.rev) => c.login = cfg.login /\ c.hostKey = cfg.hostKey
          /\ keyFile[c.key].private # 0
          /\ <<c.key, c.hostKey>> \in known

\* A pair is being made only where no file is, its public half is placed only
\* where the private half alone is, and halves that lie together are one pair.
FilesHold(k) ==
  /\ generating[k] = "keygen" => keyFile[k].private = 0 /\ keyFile[k].public = 0
  /\ generating[k] = "placing" => keyFile[k].private # 0 /\ keyFile[k].public = 0
  /\ keyFile[k].public \in {0, keyFile[k].private}

\* The inductive invariant of the settings.
SshInv ==
  /\ SettingsHold
  /\ HostKeyWasScannedHere
  /\ RowHolds
  /\ CandidateHolds
  /\ \A t \in Tester : TestHolds(t)
  /\ \A k \in Key : FilesHold(k)

\* The job of a shutdown, as the types have it.
Waiting == {"none", "accepting"}
JobType == [stage: Waiting \cup {"queued", "checking", "probing", "answered", "rechecking",
                                 "cleared", "watching", "refreshing", "silent"},
            ip: Ip \cup {None}, expected: ConnType, at: Nat, tries: Nat, streak: Nat]

\* A job has an address.
JobTyped == job \in JobType /\ (job.stage # "none" => job.ip # None)

\* The connection that an accepted job expects is a version that was read; if
\* that version is still stored, nothing changed since the request read it.
JobHolds ==
  /\ JobTyped
  /\ job.stage \notin Waiting =>
       /\ ReadBefore(job.expected.key, job.expected.rev)
       /\ StillStored(job.expected.key, job.expected.rev) => job.at = epoch
-----------------------------------------------------------------------------
\* How a step moves the row: a new incarnation takes a new key; otherwise the
\* version grows, or login, host key and the count of changes stay.  Key and
\* known_hosts files are never taken away.
RowMoves ==
  /\ created' \in Nat /\ created <= created'
  /\ cfg'.key # 0 =>
       \/ created' = created + 1 /\ cfg'.key = created'
       \/ /\ cfg'.key = cfg.key /\ created' = created
          /\ \/ cfg'.rev = cfg.rev + 1
             \/ /\ cfg'.rev = cfg.rev /\ epoch' = epoch
                /\ cfg'.login = cfg.login /\ cfg'.hostKey = cfg.hostKey
  /\ \A k \in Key : keyFile[k].private # 0 => keyFile'[k].private # 0
  /\ known \subseteq known'

\* What the types say of numbers and keys.
LEMMA Numbers ==
  ASSUME TypeOK
  PROVE  /\ Incarnations \in Nat \ {0} /\ MaxEpoch \in Nat
         /\ created \in Nat /\ created <= Incarnations /\ epoch \in Nat
         /\ cfg.key \in Nat /\ cfg.rev \in Nat
         /\ HasCfg => cfg.key \in Key
         /\ \A k \in 1 .. created : k \in Key
  BY SshAssumption DEF TypeOK, CfgType, Key, HasCfg
-----------------------------------------------------------------------------
\* What the steps that write the row make of it, field by field.
LEMMA UpsertRow ==
  ASSUME TypeOK, NEW ip \in Ip, NEW s \in Status, UpsertPc(ip, s)
  PROVE  /\ cfg' \in CfgType
         /\ \/ cfg' = cfg /\ epoch' = epoch /\ (HasCfg /\ Registered => pc.ip = ip)
            \/ /\ Registered /\ HasCfg /\ Changed
               /\ cfg'.key = cfg.key /\ cfg'.login = cfg.login /\ cfg'.hostKey = cfg.hostKey
               /\ cfg'.rev = cfg.rev + 1 /\ cfg'.scannedAs = cfg.scannedAs
               /\ cfg'.verifiedIp = None
<1>0. cfg \in CfgType
  BY DEF TypeOK
<1>1. CASE ~(Registered /\ pc.ip # ip /\ HasCfg)
  <2>1. cfg' = cfg /\ epoch' = epoch
    BY <1>1 DEF UpsertPc
  <2> QED BY <1>0, <1>1, <2>1
<1>2. CASE Registered /\ pc.ip # ip /\ HasCfg
  <2>0. Changed /\ cfg' = [Unverified(cfg) EXCEPT !.rev = @ + 1]
    BY <1>2 DEF UpsertPc
  <2>1. cfg' = [key |-> cfg.key, login |-> cfg.login, enabled |-> cfg.enabled,
                hostKey |-> cfg.hostKey, verifiedIp |-> None, rev |-> cfg.rev + 1,
                testedAs |-> None, scannedAs |-> cfg.scannedAs]
    BY <1>0, <2>0 DEF CfgType, Unverified
  <2>2. Changed
    BY <2>0
  <2> QED BY <1>0, <1>2, <2>1, <2>2 DEF CfgType
<1> QED BY <1>1, <1>2

LEMMA SaveRow ==
  ASSUME TypeOK, NEW login \in Login, NEW enabled \in BOOLEAN, SaveSettings(login, enabled)
  PROVE  /\ cfg' \in CfgType
         /\ cfg'.login = login
         /\ \/ /\ created < Incarnations /\ created' = created + 1 /\ cfg'.key = created'
               /\ cfg'.hostKey = None /\ cfg'.verifiedIp = None
            \/ /\ HasCfg /\ created' = created
               /\ cfg'.key = cfg.key /\ cfg'.rev = cfg.rev + 1
               /\ \/ cfg'.hostKey = None /\ cfg'.verifiedIp = None
                  \/ /\ login = cfg.login /\ cfg'.hostKey = cfg.hostKey
                     /\ cfg'.verifiedIp = cfg.verifiedIp
                     /\ cfg'.testedAs = cfg.testedAs /\ cfg'.scannedAs = cfg.scannedAs
<1>0. cfg \in CfgType
  BY DEF TypeOK
<1>1. CASE ~HasCfg
  <2>0. cfg' = [NoCfg EXCEPT !.key = created + 1, !.login = login,
                             !.enabled = enabled, !.rev = 1]
    BY <1>1 DEF SaveSettings
  <2>1. cfg' = [key |-> created + 1, login |-> login, enabled |-> enabled,
                hostKey |-> None, verifiedIp |-> None, rev |-> 1,
                testedAs |-> None, scannedAs |-> None]
    BY <2>0 DEF NoCfg
  <2>2. created < Incarnations /\ created' = created + 1
    BY <1>1 DEF SaveSettings
  <2>3. created + 1 \in 0 .. Incarnations
    BY <2>2, Numbers
  <2> QED BY <2>1, <2>2, <2>3 DEF CfgType
<1>2. CASE HasCfg
  <2>0. /\ created' = created
        /\ cfg' = [(IF login = cfg.login THEN cfg
                    ELSE [Unverified(cfg) EXCEPT !.hostKey = None, !.scannedAs = None])
                   EXCEPT !.login = login, !.enabled = enabled, !.rev = @ + 1]
    BY <1>2 DEF SaveSettings
  <2>4. created' = created
    BY <2>0
  <2>1. CASE login = cfg.login
    <3>1. cfg' = [cfg EXCEPT !.login = login, !.enabled = enabled, !.rev = @ + 1]
      BY <2>0, <2>1
    <3>2. cfg' = [key |-> cfg.key, login |-> login, enabled |-> enabled,
                  hostKey |-> cfg.hostKey, verifiedIp |-> cfg.verifiedIp,
                  rev |-> cfg.rev + 1, testedAs |-> cfg.testedAs,
                  scannedAs |-> cfg.scannedAs]
      BY <1>0, <3>1 DEF CfgType
    <3> QED BY <1>0, <1>2, <2>1, <2>4, <3>2 DEF CfgType
  <2>2. CASE login # cfg.login
    <3>1. cfg' = [[Unverified(cfg) EXCEPT !.hostKey = None, !.scannedAs = None]
                  EXCEPT !.login = login, !.enabled = enabled, !.rev = @ + 1]
      BY <2>0, <2>2
    <3>2. cfg' = [key |-> cfg.key, login |-> login, enabled |-> enabled,
                  hostKey |-> None, verifiedIp |-> None, rev |-> cfg.rev + 1,
                  testedAs |-> None, scannedAs |-> None]
      BY <1>0, <3>1 DEF CfgType, Unverified
    <3> QED BY <1>0, <1>2, <2>4, <3>2 DEF CfgType
  <2> QED BY <2>1, <2>2
<1> QED BY <1>1, <1>2

LEMMA ConfirmRow ==
  ASSUME TypeOK, CandidateHolds, ConfirmHostKey
  PROVE  /\ cfg' \in CfgType
         /\ \/ cfg' = cfg /\ epoch' = epoch
            \/ /\ Matches(scan.ip, scan.rev)
               /\ cfg'.key = cfg.key /\ cfg'.login = cfg.login /\ cfg'.rev = cfg.rev + 1
               /\ cfg'.scannedAs = scan.as /\ cfg'.verifiedIp = None
<1>0. cfg \in CfgType
  BY DEF TypeOK
<1>1. CASE ~Matches(scan.ip, scan.rev)
  <2>1. cfg' = cfg /\ epoch' = epoch
    BY <1>1 DEF ConfirmHostKey
  <2> QED BY <1>0, <2>1
<1>2. CASE Matches(scan.ip, scan.rev)
  <2>0. cfg' = [Unverified(cfg) EXCEPT !.hostKey = scan.hostKey, !.rev = @ + 1,
                                       !.scannedAs = scan.as]
    BY <1>2 DEF ConfirmHostKey
  <2>1. cfg' = [key |-> cfg.key, login |-> cfg.login, enabled |-> cfg.enabled,
                hostKey |-> scan.hostKey, verifiedIp |-> None, rev |-> cfg.rev + 1,
                testedAs |-> None, scannedAs |-> scan.as]
    BY <1>0, <2>0 DEF CfgType, Unverified
  <2>2. scan.as \in ScannedType /\ scan.hostKey \in HostKey
    BY DEF CandidateHolds, ConfirmHostKey
  <2> QED BY <1>0, <1>2, <2>1, <2>2 DEF CfgType
<1> QED BY <1>1, <1>2

LEMMA SucceedRow ==
  ASSUME TypeOK, NEW t \in Tester, TestHolds(t), TestSucceeds(t)
  PROVE  /\ cfg' \in CfgType
         /\ \/ cfg' = cfg
            \/ /\ Matches(tester[t].conn.ip, tester[t].conn.rev)
               /\ cfg'.key = cfg.key /\ cfg'.login = cfg.login /\ cfg'.rev = cfg.rev
               /\ cfg'.hostKey = cfg.hostKey /\ cfg'.scannedAs = cfg.scannedAs
               /\ cfg'.verifiedIp = tester[t].conn.ip
               /\ cfg'.testedAs = Tested(tester[t].conn)
<1>0. cfg \in CfgType
  BY DEF TypeOK
<1>1. CASE ~Matches(tester[t].conn.ip, tester[t].conn.rev)
  <2>1. cfg' = cfg
    BY <1>1 DEF TestSucceeds
  <2> QED BY <1>0, <2>1
<1>2. CASE Matches(tester[t].conn.ip, tester[t].conn.rev)
  <2>0. cfg' = [cfg EXCEPT !.verifiedIp = tester[t].conn.ip,
                           !.testedAs = Tested(tester[t].conn)]
    BY <1>2 DEF TestSucceeds
  <2>1. cfg' = [key |-> cfg.key, login |-> cfg.login, enabled |-> cfg.enabled,
                hostKey |-> cfg.hostKey, verifiedIp |-> tester[t].conn.ip,
                rev |-> cfg.rev, testedAs |-> Tested(tester[t].conn),
                scannedAs |-> cfg.scannedAs]
    BY <1>0, <2>0 DEF CfgType
  <2>2. /\ tester[t].conn.ip \in Ip /\ tester[t].conn.login \in Login
        /\ tester[t].conn.hostKey \in HostKey /\ tester[t].conn.key \in Key
    BY Numbers DEF TestHolds, TestSucceeds, ReadBefore
  <2>3. Tested(tester[t].conn) \in TestedType
    BY <2>2 DEF Tested, TestedType
  <2> QED BY <1>0, <1>2, <2>1, <2>2, <2>3 DEF CfgType
<1> QED BY <1>1, <1>2

LEMMA FailRow ==
  ASSUME TypeOK, NEW t \in Tester, RecordFailure(t)
  PROVE  /\ cfg' \in CfgType
         /\ cfg'.key = cfg.key /\ cfg'.login = cfg.login /\ cfg'.rev = cfg.rev
         /\ cfg'.hostKey = cfg.hostKey /\ cfg'.scannedAs = cfg.scannedAs
         /\ cfg' = cfg \/ (HasCfg /\ cfg'.verifiedIp = None)
<1>0. cfg \in CfgType
  BY DEF TypeOK
<1>1. CASE ~Matches(tester[t].conn.ip, tester[t].conn.rev)
  <2>1. cfg' = cfg
    BY <1>1 DEF RecordFailure
  <2> QED BY <1>0, <2>1 DEF CfgType
<1>2. CASE Matches(tester[t].conn.ip, tester[t].conn.rev)
  <2>0. cfg' = Unverified(cfg)
    BY <1>2 DEF RecordFailure
  <2>1. cfg' = [key |-> cfg.key, login |-> cfg.login, enabled |-> cfg.enabled,
                hostKey |-> cfg.hostKey, verifiedIp |-> None, rev |-> cfg.rev,
                testedAs |-> None, scannedAs |-> cfg.scannedAs]
    BY <1>0, <2>0 DEF CfgType, Unverified
  <2>2. HasCfg
    BY <1>2 DEF Matches
  <2> QED BY <1>0, <2>1, <2>2 DEF CfgType
<1> QED BY <1>1, <1>2
-----------------------------------------------------------------------------
\* How a step moves the files of one directory.
FilesMove(k) ==
  /\ keyFile'[k] \in [private: Nat, public: Nat]
  /\ generating'[k] \in {"no", "keygen", "placing"}
  /\ FilesHold(k)'
  /\ keyFile[k].private # 0 => keyFile'[k].private = keyFile[k].private
  /\ keyFile[k].public # 0 => keyFile'[k].public = keyFile[k].public

LEMMA NextFiles ==
  ASSUME TypeOK, \A k \in Key : FilesHold(k), [Next]_sshVars
  PROVE  /\ keyFile' \in [Key -> [private: Nat, public: Nat]]
         /\ generating' \in [Key -> {"no", "keygen", "placing"}]
         /\ \A k \in Key : FilesMove(k)
<1> DEFINE Goal == /\ keyFile' \in [Key -> [private: Nat, public: Nat]]
                   /\ generating' \in [Key -> {"no", "keygen", "placing"}]
                   /\ \A k \in Key : FilesMove(k)
<1>0. /\ keyFile \in [Key -> [private: Nat, public: Nat]]
      /\ generating \in [Key -> {"no", "keygen", "placing"}]
  BY DEF TypeOK
<1>1. ASSUME NEW i \in Key, PlacePrivate(i) PROVE Goal
  <2>1. /\ keyFile' = [keyFile EXCEPT ![i].private = @ + 1]
        /\ generating[i] = "keygen"
        /\ generating' = [generating EXCEPT ![i] = "placing"]
    BY <1>1 DEF PlacePrivate
  <2>2. keyFile'[i] = [keyFile[i] EXCEPT !.private = @ + 1]
    BY <1>0, <2>1
  <2>3. keyFile'[i].private = keyFile[i].private + 1 /\ keyFile'[i].public = keyFile[i].public
    BY <1>0, <2>2
  <2>4. /\ keyFile[i].private = 0 /\ keyFile[i].public = 0
        /\ \A k \in Key : FilesHold(k)
    BY <2>1 DEF FilesHold
  <2>5. FilesMove(i)
    BY <1>0, <2>1, <2>2, <2>3, <2>4 DEF FilesMove, FilesHold
  <2>6. \A k \in Key \ {i} : FilesMove(k)
    BY <1>0, <2>1, <2>4 DEF FilesMove, FilesHold
  <2>7. /\ keyFile' \in [Key -> [private: Nat, public: Nat]]
        /\ generating' \in [Key -> {"no", "keygen", "placing"}]
    BY <1>0, <2>1
  <2> QED BY <2>5, <2>6, <2>7
<1>2. ASSUME NEW i \in Key, PlacePublic(i) PROVE Goal
  <2>1. /\ keyFile' = [keyFile EXCEPT ![i].public = keyFile[i].private]
        /\ generating[i] = "placing"
        /\ generating' = [generating EXCEPT ![i] = "no"]
    BY <1>2 DEF PlacePublic
  <2>2. keyFile'[i] = [keyFile[i] EXCEPT !.public = keyFile[i].private]
    BY <1>0, <2>1
  <2>3. keyFile'[i].private = keyFile[i].private /\ keyFile'[i].public = keyFile[i].private
    BY <1>0, <2>2
  <2>4. /\ keyFile[i].private # 0 /\ keyFile[i].public = 0
        /\ \A k \in Key : FilesHold(k)
    BY <2>1 DEF FilesHold
  <2>5. FilesMove(i)
    BY <1>0, <2>1, <2>2, <2>3, <2>4 DEF FilesMove, FilesHold
  <2>6. \A k \in Key \ {i} : FilesMove(k)
    BY <1>0, <2>1, <2>4 DEF FilesMove, FilesHold
  <2>7. /\ keyFile' \in [Key -> [private: Nat, public: Nat]]
        /\ generating' \in [Key -> {"no", "keygen", "placing"}]
    BY <1>0, <2>1
  <2> QED BY <2>5, <2>6, <2>7
<1>3. ASSUME keyFile' = keyFile, NEW i \in Key,
             \/ generating' = [generating EXCEPT ![i] = "no"]
             \/ /\ generating' = [generating EXCEPT ![i] = "keygen"]
                /\ keyFile[i] = NoFiles
      PROVE  Goal
  <2>1. generating' \in [Key -> {"no", "keygen", "placing"}]
    BY <1>0, <1>3
  <2>2. NoFiles.private = 0 /\ NoFiles.public = 0
    BY DEF NoFiles
  <2>3. \A k \in Key : FilesMove(k)
    BY <1>0, <1>3, <2>1, <2>2 DEF FilesMove, FilesHold
  <2> QED BY <1>0, <1>3, <2>1, <2>3
<1>4. ASSUME keyFile' = keyFile, generating' = generating \/ generating' = [k \in Key |-> "no"]
      PROVE  Goal
  <2>1. generating' \in [Key -> {"no", "keygen", "placing"}]
    BY <1>0, <1>4
  <2>2. \A k \in Key : FilesMove(k)
    BY <1>0, <1>4, <2>1 DEF FilesMove, FilesHold
  <2> QED BY <1>0, <1>4, <2>1, <2>2
<1> HIDE DEF Goal
<1>5. ASSUME GenerateKey PROVE Goal
  BY <1>3, <1>5, Numbers DEF GenerateKey
<1>6. ASSUME NEW i \in Key, GenerationFails(i) PROVE Goal
  BY <1>3, <1>6 DEF GenerationFails
<1>7. Goal
  BY <1>1, <1>2, <1>4, <1>5, <1>6
  DEF Next, AdminStep, TestStep, UpsertPc, DeletePc, StatusChanges, SaveSettings,
      WriteKnownHosts, ScanReadPc, ScanHostKey, ConfirmHostKey, TestReadPc,
      TestLoad, TestFails, TestSucceeds, RecordFailure, MarkOnline, Restart, sshVars
<1> QED BY <1>7 DEF Goal

LEMMA NextMoves ==
  ASSUME SshInv, [Next]_sshVars PROVE RowMoves
<1> USE Numbers
<1>0. /\ TypeOK /\ CandidateHolds
      /\ \A t \in Tester : TestHolds(t)
      /\ \A k \in Key : FilesHold(k)
  BY DEF SshInv, SettingsHold
<1>1. ASSUME NEW ip \in Ip, NEW s \in Status, UpsertPc(ip, s) PROVE RowMoves
  BY <1>0, <1>1, UpsertRow DEF UpsertPc, RowMoves
<1>2. ASSUME DeletePc PROVE RowMoves
  BY <1>0, <1>2 DEF DeletePc, NoCfg, RowMoves
<1>3. ASSUME NEW login \in Login, NEW enabled \in BOOLEAN, SaveSettings(login, enabled)
      PROVE  RowMoves
  <2>1. UNCHANGED <<keyFile, known>>
    BY <1>3 DEF SaveSettings
  <2> QED BY <1>0, <1>3, <2>1, SaveRow DEF RowMoves
<1>4. ASSUME UNCHANGED <<cfg, created, epoch, known>> PROVE RowMoves
  BY <1>0, <1>4, NextFiles DEF RowMoves, FilesMove
<1>5. ASSUME ConfirmHostKey PROVE RowMoves
  BY <1>0, <1>5, ConfirmRow DEF ConfirmHostKey, RowMoves
<1>6. ASSUME WriteKnownHosts PROVE RowMoves
  BY <1>0, <1>6 DEF WriteKnownHosts, RowMoves
<1>7. ASSUME NEW t \in Tester, TestSucceeds(t) PROVE RowMoves
  <2>1. UNCHANGED <<created, epoch, keyFile, known>>
    BY <1>7 DEF TestSucceeds
  <2> QED BY <1>0, <1>7, <2>1, SucceedRow DEF RowMoves
<1>8. ASSUME NEW t \in Tester, RecordFailure(t) PROVE RowMoves
  <2>1. UNCHANGED <<created, epoch, keyFile, known>>
    BY <1>8 DEF RecordFailure
  <2> QED BY <1>0, <1>8, <2>1, FailRow DEF RowMoves
<1> QED
  BY <1>1, <1>2, <1>3, <1>4, <1>5, <1>6, <1>7, <1>8
  DEF Next, AdminStep, TestStep, StatusChanges, GenerateKey, PlacePrivate, PlacePublic,
      GenerationFails, ScanReadPc, ScanHostKey, TestReadPc, TestLoad, TestFails, MarkOnline, Restart, sshVars

\* Who read a version before the step read no future one after it, and if that
\* version is still stored, the step changed none of what was read with it.
LEMMA VersionKept ==
  ASSUME TypeOK, RowMoves, NEW key, NEW rev \in Nat, ReadBefore(key, rev)
  PROVE  /\ key \in 1 .. created'
         /\ key = cfg'.key => rev <= cfg'.rev
         /\ key = cfg'.key /\ rev = cfg'.rev =>
              /\ StillStored(key, rev)
              /\ cfg'.login = cfg.login /\ cfg'.hostKey = cfg.hostKey /\ epoch' = epoch
  BY Numbers DEF ReadBefore, StillStored, RowMoves
-----------------------------------------------------------------------------
\* The types of what steps write to the scan, and to a test.
LEMMA ScanTypes ==
  ASSUME SshInv, [Next]_sshVars
  PROVE  scan' \in [stage: {"none", "reading", "candidate", "saved"}, ip: Ip \cup {None},
                    rev: Nat, hostKey: HostKey \cup {None}, as: ScannedType \cup {None}]
<1> DEFINE ScanType == [stage: {"none", "reading", "candidate", "saved"}, ip: Ip \cup {None},
                        rev: Nat, hostKey: HostKey \cup {None}, as: ScannedType \cup {None}]
<1>0. TypeOK /\ scan \in ScanType /\ NoScan \in ScanType /\ RowHolds
  BY DEF SshInv, SettingsHold, TypeOK, NoScan
<1>1. ASSUME ScanReadPc PROVE scan' \in ScanType
  <2>1. scan' = [NoScan EXCEPT !.stage = "reading", !.ip = pc.ip]
    BY <1>1 DEF ScanReadPc
  <2>2. scan' = [stage |-> "reading", ip |-> pc.ip, rev |-> 0, hostKey |-> None, as |-> None]
    BY <2>1 DEF NoScan
  <2>3. pc.ip \in Ip \cup {None}
    BY <1>0 DEF TypeOK
  <2> QED BY <2>2, <2>3
<1>2. ASSUME NEW h \in HostKey, ScanHostKey(h), HasCfg PROVE scan' \in ScanType
  <2>1. scan' = [scan EXCEPT !.stage = "candidate", !.rev = cfg.rev, !.hostKey = h,
                             !.as = [key |-> cfg.key, login |-> cfg.login]]
    BY <1>2 DEF ScanHostKey
  <2>2. scan' = [stage |-> "candidate", ip |-> scan.ip, rev |-> cfg.rev, hostKey |-> h,
                 as |-> [key |-> cfg.key, login |-> cfg.login]]
    BY <1>0, <2>1
  <2>3. cfg.rev \in Nat /\ [key |-> cfg.key, login |-> cfg.login] \in ScannedType
    BY <1>0, <1>2, Numbers DEF RowHolds, ScannedType
  <2> QED BY <1>0, <2>2, <2>3
<1>3. ASSUME ConfirmHostKey PROVE scan' \in ScanType
  <2>1. CASE scan' = NoScan
    BY <1>0, <2>1
  <2>2. CASE scan' = [NoScan EXCEPT !.stage = "saved"]
    BY <2>2 DEF NoScan
  <2> QED BY <1>3, <2>1, <2>2 DEF ConfirmHostKey
<1>4. ASSUME scan' = scan \/ scan' = NoScan PROVE scan' \in ScanType
  BY <1>0, <1>4
<1> HIDE DEF ScanType
<1>5. ASSUME NEW h \in HostKey, ScanHostKey(h) PROVE scan' \in ScanType
  BY <1>2, <1>4, <1>5 DEF ScanHostKey
<1>6. scan' \in ScanType
  BY <1>1, <1>3, <1>4, <1>5
  DEF Next, AdminStep, TestStep, UpsertPc, DeletePc, StatusChanges, SaveSettings, GenerateKey,
      PlacePrivate, PlacePublic, GenerationFails, WriteKnownHosts, TestReadPc, TestLoad, TestFails, TestSucceeds,
      RecordFailure, MarkOnline, Restart, sshVars
<1> QED BY <1>6 DEF ScanType

\* A test and what it holds, as the types have it.
TestType == [stage: {"none", "loading", "connecting", "failed", "reached"}, conn: ConnType]

\* The settings read for a connection.
LEMMA ConnFacts ==
  ASSUME TypeOK, NEW ip \in Ip \cup {None}
  PROVE  /\ Conn(ip) \in ConnType /\ Conn(ip).ip = ip
         /\ Conn(ip).login = cfg.login /\ Conn(ip).key = cfg.key
         /\ Conn(ip).hostKey = cfg.hostKey /\ Conn(ip).rev = cfg.rev
  BY DEF Conn, ConnType, TypeOK, CfgType

\* A step of one test leaves the others alone.
LEMMA TestFacts ==
  ASSUME TypeOK, NEW t \in Tester, NEW r \in TestType, tester' = [tester EXCEPT ![t] = r]
  PROVE  /\ tester' \in [Tester -> TestType]
         /\ tester'[t] = r /\ \A u \in Tester \ {t} : tester'[u] = tester[u]
  BY DEF TypeOK, TestType

\* How a step leaves one test: a test reads an address, loads the settings
\* stored, or keeps what it holds.
TestMoves(t) ==
  LET c == tester'[t].conn
  IN \/ tester'[t] = tester[t]
     \/ tester'[t] = NoTest
     \/ Registered /\ tester'[t].stage = "loading" /\ c \in ConnType /\ c.ip = pc.ip
     \/ /\ Loadable /\ tester[t].stage = "loading"
        /\ tester'[t].stage = "connecting" /\ c = Conn(tester[t].conn.ip)
     \/ /\ tester[t].stage = "connecting"
        /\ tester'[t].stage \in {"failed", "reached"} /\ c = tester[t].conn

LEMMA NextTests ==
  ASSUME TypeOK, [Next]_sshVars
  PROVE  tester' \in [Tester -> TestType] /\ \A t \in Tester : TestMoves(t)
<1>0. /\ tester \in [Tester -> TestType] /\ NoTest \in TestType
      /\ \A t \in Tester : tester[t].conn \in ConnType
  <2>1. NoConn \in ConnType
    BY Numbers DEF NoConn, ConnType
  <2>2. NoTest \in TestType
    BY <2>1 DEF NoTest, TestType
  <2> QED BY <2>2 DEF TypeOK, TestType
<1> DEFINE Goal == tester' \in [Tester -> TestType] /\ \A t \in Tester : TestMoves(t)
<1>1. ASSUME NEW t \in Tester, NEW r \in TestType, tester' = [tester EXCEPT ![t] = r],
             TestMoves(t)
      PROVE  Goal
  <2>1. \A u \in Tester \ {t} : tester'[u] = tester[u]
    BY <1>1, TestFacts
  <2>2. \A u \in Tester \ {t} : TestMoves(u)
    BY <2>1 DEF TestMoves
  <2> QED BY <1>1, <2>2, TestFacts
<1>2. ASSUME NEW t \in Tester, TestReadPc(t) PROVE Goal
  <2> DEFINE c == [ip |-> pc.ip, login |-> None, key |-> 0, hostKey |-> None, rev |-> 0]
             r == [stage |-> "loading", conn |-> c]
  <2>1. [NoConn EXCEPT !.ip = pc.ip] = c
    BY DEF NoConn
  <2>2. tester' = [tester EXCEPT ![t] = r] /\ Registered
    BY <1>2, <2>1 DEF TestReadPc
  <2>3. c \in ConnType /\ r \in TestType
    BY SshAssumption DEF TypeOK, ConnType, TestType
  <2>4. tester'[t] = r
    BY <2>2, <2>3, TestFacts
  <2>5. TestMoves(t)
    BY <2>2, <2>3, <2>4 DEF TestMoves
  <2> HIDE DEF r
  <2> QED BY <1>1, <2>2, <2>3, <2>5
<1>3. ASSUME NEW t \in Tester, TestLoad(t) PROVE Goal
  <2> DEFINE c == Conn(tester[t].conn.ip)
             r == [stage |-> "connecting", conn |-> c]
  <2>1. CASE Loadable
    <3>1. tester' = [tester EXCEPT ![t] = r] /\ tester[t].stage = "loading"
      BY <1>3, <2>1 DEF TestLoad
    <3>2. c \in ConnType /\ r \in TestType
      BY <1>0, ConnFacts DEF ConnType, TestType
    <3>3. tester'[t] = r
      BY <3>1, <3>2, TestFacts
    <3>4. TestMoves(t)
      BY <2>1, <3>1, <3>3 DEF TestMoves
    <3> HIDE DEF r
    <3> QED BY <1>1, <3>1, <3>2, <3>4
  <2>2. CASE ~Loadable
    <3>1. tester' = [tester EXCEPT ![t] = NoTest]
      BY <1>3, <2>2 DEF TestLoad
    <3> QED BY <1>0, <1>1, <3>1, TestFacts DEF TestMoves
  <2> QED BY <2>1, <2>2
<1>4. ASSUME NEW t \in Tester, NEW s \in {"failed", "reached"},
             tester[t].stage = "connecting", tester' = [tester EXCEPT ![t].stage = s]
      PROVE  Goal
  <2> DEFINE r == [stage |-> s, conn |-> tester[t].conn]
  <2>1. tester' = [tester EXCEPT ![t] = r]
    <3>1. tester[t] \in TestType
      BY <1>0
    <3>2. ASSUME NEW q \in TestType, NEW u, u = [q EXCEPT !.stage = s]
          PROVE  u = [stage |-> s, conn |-> q.conn]
      BY <3>2 DEF TestType
    <3>3. [tester[t] EXCEPT !.stage = s] = r
      BY <3>1, <3>2
    <3> QED BY <1>4, <3>3
  <2>2. r \in TestType
    BY <1>0, <1>4 DEF TestType
  <2>3. tester'[t] = r
    BY <2>1, <2>2, TestFacts
  <2>4. TestMoves(t)
    BY <1>4, <2>3 DEF TestMoves
  <2> HIDE DEF r
  <2> QED BY <1>1, <2>1, <2>2, <2>4
<1>5. ASSUME NEW t \in Tester, tester' = [tester EXCEPT ![t] = NoTest] PROVE Goal
  BY <1>0, <1>1, <1>5, TestFacts DEF TestMoves
<1>6. ASSUME Restart PROVE Goal
  BY <1>0, <1>6 DEF Restart, TestMoves
<1>7. ASSUME UNCHANGED tester PROVE Goal
  BY <1>0, <1>7 DEF TestMoves
<1> HIDE DEF Goal
<1>8. ASSUME NEW t \in Tester, TestStep(t) PROVE Goal
  BY <1>2, <1>3, <1>4, <1>5, <1>8
  DEF TestStep, TestFails, TestSucceeds, RecordFailure, MarkOnline
<1>9. Goal
  BY <1>6, <1>7, <1>8
  DEF Next, AdminStep, UpsertPc, DeletePc, StatusChanges, SaveSettings, GenerateKey,
      PlacePrivate, PlacePublic, GenerationFails, ScanReadPc, ScanHostKey, ConfirmHostKey, WriteKnownHosts, sshVars
<1> QED BY <1>9 DEF Goal
-----------------------------------------------------------------------------
\* The two rows after a step: their types, and what they owe each other.
LEMMA NextRow ==
  ASSUME SshInv, [Next]_sshVars
  PROVE  /\ pc' \in [ip: Ip \cup {None}, status: Status] /\ cfg' \in CfgType
         /\ created' \in 0 .. Incarnations /\ epoch' \in 0 .. MaxEpoch
         /\ RowHolds' /\ VerifiedForPresentPc'
<1> DEFINE Goal == /\ pc' \in [ip: Ip \cup {None}, status: Status] /\ cfg' \in CfgType
                   /\ created' \in 0 .. Incarnations /\ epoch' \in 0 .. MaxEpoch
                   /\ RowHolds' /\ VerifiedForPresentPc'
<1>0. /\ TypeOK /\ RowHolds /\ VerifiedForPresentPc /\ CandidateHolds
      /\ \A t \in Tester : TestHolds(t)
      /\ pc \in [ip: Ip \cup {None}, status: Status] /\ cfg \in CfgType
      /\ created \in 0 .. Incarnations /\ epoch \in 0 .. MaxEpoch /\ MaxEpoch \in Nat
  BY SshAssumption DEF SshInv, SettingsHold, TypeOK
<1>a. ASSUME Changed PROVE epoch' \in 0 .. MaxEpoch
  BY <1>0, <1>a DEF Changed
<1>1. ASSUME NEW ip \in Ip, NEW s \in Status, UpsertPc(ip, s) PROVE Goal
  <2>1. /\ pc' = [ip |-> ip, status |-> s] /\ created' = created
        /\ epoch' = epoch \/ Changed
    BY <1>1 DEF UpsertPc
  <2>2. ip # None
    BY SshAssumption
  <2>3. cfg' \in CfgType /\ epoch' \in 0 .. MaxEpoch
    BY <1>0, <1>1, <1>a, <2>1, UpsertRow
  <2>4. CASE cfg' = cfg /\ (HasCfg /\ Registered => pc.ip = ip)
    <3>1. RowHolds'
      BY <1>0, <2>1, <2>2, <2>4 DEF RowHolds, HasCfg, Registered
    <3>2. VerifiedForPresentPc'
      BY <1>0, <2>1, <2>2, <2>4 DEF RowHolds, VerifiedForPresentPc, HasCfg, Registered, NoCfg
    <3> QED BY <1>0, <2>1, <2>3, <3>1, <3>2
  <2>5. CASE /\ HasCfg /\ cfg'.key = cfg.key /\ cfg'.login = cfg.login /\ cfg'.verifiedIp = None
    <3>1. RowHolds' /\ VerifiedForPresentPc'
      BY <1>0, <2>1, <2>2, <2>5 DEF RowHolds, VerifiedForPresentPc, HasCfg, Registered
    <3> QED BY <1>0, <2>1, <2>3, <3>1
  <2> QED BY <1>0, <1>1, <2>4, <2>5, UpsertRow
<1>2. ASSUME DeletePc PROVE Goal
  <2>1. /\ pc' = NoPc /\ cfg' = NoCfg /\ created' = created
        /\ epoch' = epoch \/ Changed
    BY <1>2 DEF DeletePc
  <2>2. pc' \in [ip: Ip \cup {None}, status: Status] /\ cfg' \in CfgType
    BY <2>1, SshAssumption DEF NoPc, Status, NoCfg, CfgType
  <2>3. RowHolds' /\ VerifiedForPresentPc'
    BY <2>1 DEF NoCfg, RowHolds, VerifiedForPresentPc, HasCfg
  <2> QED BY <1>0, <1>a, <2>1, <2>2, <2>3
<1>3. ASSUME NEW s \in Status, pc' = [pc EXCEPT !.status = s] \/ pc' = pc,
             UNCHANGED <<cfg, created, epoch>>
      PROVE  Goal
  <2>1. pc' \in [ip: Ip \cup {None}, status: Status] /\ pc'.ip = pc.ip
    BY <1>0, <1>3
  <2>2. RowHolds' /\ VerifiedForPresentPc'
    BY <1>0, <1>3, <2>1 DEF RowHolds, VerifiedForPresentPc, HasCfg, Registered
  <2> QED BY <1>0, <1>3, <2>1, <2>2
<1>4. ASSUME NEW login \in Login, NEW enabled \in BOOLEAN, SaveSettings(login, enabled)
      PROVE  Goal
  <2>1. pc' = pc /\ Changed /\ Registered
    BY <1>4 DEF SaveSettings
  <2>2. created' \in 0 .. Incarnations
    BY <1>0, <1>4, SaveRow, Numbers
  <2>3. HasCfg' /\ cfg'.key = created'
    BY <1>0, <1>4, SaveRow, Numbers DEF HasCfg, RowHolds
  <2>4. RowHolds' /\ VerifiedForPresentPc'
    BY <1>0, <1>4, <2>1, <2>3, SaveRow DEF RowHolds, VerifiedForPresentPc, HasCfg, Registered
  <2> QED BY <1>0, <1>4, <1>a, <2>1, <2>2, <2>4, SaveRow
<1>5. ASSUME ConfirmHostKey PROVE Goal
  <2>1. pc' = pc /\ created' = created /\ (epoch' = epoch \/ Changed)
    BY <1>5 DEF ConfirmHostKey
  <2>2. RowHolds' /\ VerifiedForPresentPc'
    <3>1. CASE cfg' = cfg
      BY <1>0, <2>1, <3>1 DEF RowHolds, VerifiedForPresentPc, HasCfg, Registered
    <3>2. CASE /\ Matches(scan.ip, scan.rev) /\ cfg'.key = cfg.key /\ cfg'.login = cfg.login
               /\ cfg'.verifiedIp = None
      BY <1>0, <2>1, <3>2 DEF RowHolds, VerifiedForPresentPc, HasCfg, Registered, Matches
    <3> QED BY <1>0, <1>5, <3>1, <3>2, ConfirmRow
  <2> QED BY <1>0, <1>5, <1>a, <2>1, <2>2, ConfirmRow
<1>6. ASSUME NEW t \in Tester, TestSucceeds(t) PROVE Goal
  <2>1. pc' = pc /\ created' = created /\ epoch' = epoch
    BY <1>6 DEF TestSucceeds
  <2>2. RowHolds' /\ VerifiedForPresentPc'
    <3>1. CASE cfg' = cfg
      BY <1>0, <2>1, <3>1 DEF RowHolds, VerifiedForPresentPc, HasCfg, Registered
    <3>2. CASE /\ Matches(tester[t].conn.ip, tester[t].conn.rev)
               /\ cfg'.key = cfg.key /\ cfg'.login = cfg.login
               /\ cfg'.verifiedIp = tester[t].conn.ip
      BY <1>0, <2>1, <3>2 DEF RowHolds, VerifiedForPresentPc, HasCfg, Registered, Matches
    <3> QED BY <1>0, <1>6, <3>1, <3>2, SucceedRow
  <2> QED BY <1>0, <1>6, <2>1, <2>2, SucceedRow
<1>7. ASSUME NEW t \in Tester, RecordFailure(t) PROVE Goal
  <2>1. pc' = pc /\ created' = created /\ epoch' = epoch
    BY <1>7 DEF RecordFailure
  <2>2. RowHolds' /\ VerifiedForPresentPc'
    <3>1. CASE cfg' = cfg
      BY <1>0, <2>1, <3>1 DEF RowHolds, VerifiedForPresentPc, HasCfg, Registered
    <3>2. CASE /\ HasCfg /\ cfg'.key = cfg.key /\ cfg'.login = cfg.login
               /\ cfg'.verifiedIp = None
      BY <1>0, <2>1, <3>2 DEF RowHolds, VerifiedForPresentPc, HasCfg, Registered
    <3> QED BY <1>0, <1>7, <3>1, <3>2, FailRow
  <2> QED BY <1>0, <1>7, <2>1, <2>2, FailRow
<1>8. "online" \in Status
  BY DEF Status
<1>9. ASSUME UNCHANGED <<pc, cfg, created, epoch>> PROVE Goal
  BY <1>3, <1>8, <1>9
<1>10. ASSUME NEW t \in Tester, MarkOnline(t) PROVE Goal
  BY <1>3, <1>8, <1>10 DEF MarkOnline
<1>11. ASSUME NEW s \in Status, StatusChanges(s) PROVE Goal
  BY <1>3, <1>11 DEF StatusChanges
<1> HIDE DEF Goal
<1>12. Goal
  BY <1>1, <1>2, <1>4, <1>5, <1>6, <1>7, <1>9, <1>10, <1>11
  DEF Next, AdminStep, TestStep, GenerateKey, PlacePrivate, PlacePublic, GenerationFails, ScanReadPc, ScanHostKey,
      WriteKnownHosts, TestReadPc, TestLoad, TestFails, Restart, sshVars
<1> QED BY <1>12 DEF Goal

LEMMA FileTypes ==
  ASSUME SshInv, [Next]_sshVars
  PROVE  /\ keyFile' \in [Key -> [private: Nat, public: Nat]]
         /\ generating' \in [Key -> {"no", "keygen", "placing"}]
         /\ \A k \in Key : FilesHold(k)'
         /\ known' \subseteq Key \X HostKey
<1>0. TypeOK
  BY DEF SshInv, SettingsHold
<1>1. ASSUME WriteKnownHosts PROVE known' \subseteq Key \X HostKey
  <2>1. CASE HasCfg /\ cfg.hostKey # None
    <3>1. cfg.key \in Key /\ cfg.hostKey \in HostKey
      BY <1>0, <2>1, Numbers DEF TypeOK, CfgType
    <3> QED BY <1>0, <1>1, <2>1, <3>1 DEF WriteKnownHosts, TypeOK
  <2> QED BY <1>0, <1>1, <2>1 DEF WriteKnownHosts, TypeOK
<1>2. known' \subseteq Key \X HostKey
  BY <1>0, <1>1
  DEF TypeOK, Next, AdminStep, TestStep, UpsertPc, DeletePc, StatusChanges, SaveSettings,
      GenerateKey, PlacePrivate, PlacePublic, GenerationFails, ScanReadPc, ScanHostKey, ConfirmHostKey, TestReadPc,
      TestLoad, TestFails, TestSucceeds, RecordFailure, MarkOnline, Restart, sshVars
<1> QED BY <1>0, <1>2, NextFiles DEF SshInv, FilesMove
-----------------------------------------------------------------------------
\* Whoever shows a candidate, or tests a connection, keeps what it knows of the
\* version it read.
LEMMA NextCandidate ==
  ASSUME SshInv, [Next]_sshVars PROVE CandidateHolds'
<1>0. TypeOK /\ CandidateHolds /\ RowHolds /\ RowMoves
  BY NextMoves DEF SshInv, SettingsHold
<1>1. ASSUME scan'.stage # "candidate" PROVE CandidateHolds'
  BY <1>1 DEF CandidateHolds
<1>2. ASSUME scan' = scan, scan.stage = "candidate" PROVE CandidateHolds'
  <2>1. /\ scan.as \in ScannedType /\ scan.hostKey \in HostKey /\ scan.rev \in Nat
        /\ ReadBefore(scan.as.key, scan.rev)
        /\ StillStored(scan.as.key, scan.rev) => scan.as.login = cfg.login
    BY <1>0, <1>2 DEF CandidateHolds, TypeOK
  <2>2. /\ scan.as.key \in 1 .. created'
        /\ scan.as.key = cfg'.key => scan.rev <= cfg'.rev
        /\ scan.as.key = cfg'.key /\ scan.rev = cfg'.rev => scan.as.login = cfg'.login
    BY <1>0, <2>1, VersionKept
  <2> QED BY <1>2, <2>1, <2>2 DEF CandidateHolds, ReadBefore, StillStored
<1>3. ASSUME NEW h \in HostKey, ScanHostKey(h), HasCfg PROVE CandidateHolds'
  <2>1. scan' = [scan EXCEPT !.stage = "candidate", !.rev = cfg.rev, !.hostKey = h,
                             !.as = [key |-> cfg.key, login |-> cfg.login]]
    BY <1>3 DEF ScanHostKey
  <2>2. scan \in [stage: {"none", "reading", "candidate", "saved"}, ip: Ip \cup {None},
                  rev: Nat, hostKey: HostKey \cup {None}, as: ScannedType \cup {None}]
    BY <1>0 DEF TypeOK
  <2>3. scan'.rev = cfg.rev /\ scan'.hostKey = h /\ scan'.as = [key |-> cfg.key, login |-> cfg.login]
    BY <2>1, <2>2
  <2>4. cfg' = cfg /\ created' = created
    BY <1>3 DEF ScanHostKey
  <2>5. scan'.as.key = cfg.key /\ scan'.as.login = cfg.login
    BY <2>3
  <2>6. cfg.key \in Key /\ cfg.key \in 1 .. created /\ cfg.login \in Login /\ cfg.rev \in Nat
    BY <1>0, <1>3, Numbers DEF RowHolds, Key
  <2>7. scan'.as \in ScannedType
    BY <2>3, <2>6 DEF ScannedType
  <2> QED BY <2>3, <2>4, <2>5, <2>6, <2>7 DEF CandidateHolds, ReadBefore, StillStored
<1>4. ASSUME ScanReadPc \/ ConfirmHostKey \/ scan' = NoScan PROVE scan'.stage # "candidate"
  <2>1. NoScan.stage = "none" /\ [NoScan EXCEPT !.stage = "saved"].stage = "saved"
    BY DEF NoScan
  <2>2. ASSUME NEW ip, NEW s, s = [NoScan EXCEPT !.stage = "reading", !.ip = ip]
        PROVE  s.stage = "reading"
    BY <2>2 DEF NoScan
  <2>3. CASE ScanReadPc
    BY <2>2, <2>3 DEF ScanReadPc
  <2>4. CASE scan' = NoScan \/ scan' = [NoScan EXCEPT !.stage = "saved"]
    BY <2>1, <2>4
  <2> QED BY <1>4, <2>3, <2>4 DEF ConfirmHostKey
<1>5. ASSUME scan' = scan PROVE CandidateHolds'
  BY <1>1, <1>2, <1>5
<1>6. ASSUME NEW h \in HostKey, ScanHostKey(h) PROVE CandidateHolds'
  BY <1>1, <1>3, <1>4, <1>6 DEF ScanHostKey
<1> QED
  BY <1>1, <1>4, <1>5, <1>6
  DEF Next, AdminStep, TestStep, UpsertPc, DeletePc, StatusChanges, SaveSettings, GenerateKey,
      PlacePrivate, PlacePublic, GenerationFails, WriteKnownHosts, TestReadPc, TestLoad, TestFails, TestSucceeds,
      RecordFailure, MarkOnline, Restart, sshVars

LEMMA NextTestHolds ==
  ASSUME SshInv, [Next]_sshVars, NEW t \in Tester PROVE TestHolds(t)'
<1> DEFINE c == tester[t].conn
           d == tester'[t].conn
<1>0. TypeOK /\ TestHolds(t) /\ RowHolds /\ RowMoves /\ TestMoves(t)
  BY NextMoves, NextTests DEF SshInv, SettingsHold
<1>1. c.rev \in Nat
  BY <1>0 DEF TypeOK, ConnType
<1>2. ASSUME tester[t].stage \in {"connecting", "failed"}
      PROVE  /\ c.ip \in Ip /\ c.login \in Login /\ c.hostKey \in HostKey
             /\ c.key \in 1 .. created' /\ (c.key = cfg'.key => c.rev <= cfg'.rev)
             /\ c.key = cfg'.key /\ c.rev = cfg'.rev =>
                  c.login = cfg'.login /\ c.hostKey = cfg'.hostKey
             /\ keyFile'[c.key].private # 0 /\ <<c.key, c.hostKey>> \in known'
  <2>1. /\ c.ip \in Ip /\ c.login \in Login /\ c.hostKey \in HostKey
        /\ ReadBefore(c.key, c.rev)
        /\ StillStored(c.key, c.rev) => c.login = cfg.login /\ c.hostKey = cfg.hostKey
        /\ keyFile[c.key].private # 0 /\ <<c.key, c.hostKey>> \in known
    BY <1>0, <1>2 DEF TestHolds
  <2>2. c.key \in Key
    BY <1>0, <2>1, Numbers DEF ReadBefore
  <2>3. keyFile'[c.key].private # 0 /\ <<c.key, c.hostKey>> \in known'
    BY <1>0, <2>1, <2>2 DEF RowMoves
  <2> HIDE DEF c
  <2> QED BY <1>0, <1>1, <2>1, <2>3, VersionKept
<1>3. CASE tester'[t] = tester[t]
  <2>1. d = c /\ tester'[t].stage = tester[t].stage
    BY <1>3
  <2>2. tester[t].stage # "none" => c.ip \in Ip
    BY <1>0 DEF TestHolds
  <2> QED BY <1>2, <2>1, <2>2 DEF TestHolds, ReadBefore, StillStored
<1>4. CASE tester'[t] = NoTest
  BY <1>4 DEF NoTest, TestHolds
<1>5. CASE Registered /\ tester'[t].stage = "loading" /\ d.ip = pc.ip
  <2>1. pc.ip \in Ip
    BY <1>0, <1>5 DEF Registered, TypeOK
  <2> QED BY <1>5, <2>1 DEF TestHolds
<1>6. CASE /\ Loadable /\ tester[t].stage = "loading"
           /\ tester'[t].stage = "connecting" /\ d = Conn(c.ip)
  <2>1. c.ip \in Ip
    BY <1>0, <1>6 DEF TestHolds
  <2>2. /\ d.ip = c.ip /\ d.login = cfg.login /\ d.key = cfg.key
        /\ d.hostKey = cfg.hostKey /\ d.rev = cfg.rev
    BY <1>0, <1>6, <2>1, ConnFacts
  <2>3. /\ cfg.login \in Login /\ cfg.hostKey \in HostKey /\ cfg.rev \in Nat
        /\ ReadBefore(cfg.key, cfg.rev) /\ cfg.key \in Key
    BY <1>0, <1>6, Numbers DEF Loadable, RowHolds, TypeOK, CfgType, ReadBefore, Key
  <2>4. /\ cfg.key \in 1 .. created' /\ (cfg.key = cfg'.key => cfg.rev <= cfg'.rev)
        /\ cfg.key = cfg'.key /\ cfg.rev = cfg'.rev =>
             cfg.login = cfg'.login /\ cfg.hostKey = cfg'.hostKey
    BY <1>0, <2>3, VersionKept
  <2>5. keyFile'[cfg.key].private # 0 /\ <<cfg.key, cfg.hostKey>> \in known'
    BY <1>0, <1>6, <2>3 DEF Loadable, RowMoves
  <2> HIDE DEF c, d
  <2>6. tester'[t].conn = d
    BY DEF d
  <2> QED BY <1>6, <2>1, <2>2, <2>3, <2>4, <2>5, <2>6 DEF TestHolds, ReadBefore, StillStored
<1>7. CASE /\ tester[t].stage = "connecting"
           /\ tester'[t].stage \in {"failed", "reached"} /\ d = c
  BY <1>2, <1>7 DEF TestHolds, ReadBefore, StillStored
<1> QED BY <1>0, <1>3, <1>4, <1>5, <1>6, <1>7 DEF TestMoves
-----------------------------------------------------------------------------
\* A verification and a host key that a step leaves alone stay true.
LEMMA KeptVerified ==
  ASSUME SshInv, RowMoves, VerifiedForPresentPc', created' = created,
         cfg'.key = cfg.key, cfg'.login = cfg.login, cfg'.hostKey = cfg.hostKey,
         cfg'.verifiedIp = cfg.verifiedIp, cfg'.testedAs = cfg.testedAs
  PROVE  FirstVerifiedWasTested' /\ VerifiedIsLoadable'
<1>0. /\ VerifiedForPresentPc /\ FirstVerifiedWasTested /\ VerifiedIsLoadable /\ TypeOK
  BY DEF SshInv, SettingsHold
<1> SUFFICES ASSUME created = 1, cfg.verifiedIp # None
             PROVE  VerifiedWasTested' /\ Loadable'
  BY DEF FirstVerifiedWasTested, VerifiedIsLoadable, VerifiedWasTested
<1>1. VerifiedWasTested /\ Loadable /\ cfg.key \in Key
  BY <1>0, Numbers DEF FirstVerifiedWasTested, VerifiedIsLoadable, Loadable
<1>2. pc'.ip = pc.ip
  BY <1>0 DEF VerifiedForPresentPc
<1>3. VerifiedWasTested'
  BY <1>1, <1>2 DEF VerifiedWasTested, Tested, Conn
<1>4. Loadable'
  BY <1>1 DEF Loadable, HasCfg, RowMoves
<1> QED BY <1>3, <1>4

LEMMA NextVerified ==
  ASSUME SshInv, [Next]_sshVars
  PROVE  FirstVerifiedWasTested' /\ VerifiedIsLoadable' /\ HostKeyWasScannedHere'
<1> DEFINE Goal == FirstVerifiedWasTested' /\ VerifiedIsLoadable' /\ HostKeyWasScannedHere'
<1>0. /\ TypeOK /\ RowMoves /\ VerifiedForPresentPc' /\ RowHolds /\ RowHolds'
      /\ HostKeyWasScannedHere /\ CandidateHolds /\ \A t \in Tester : TestHolds(t)
  BY NextMoves, NextRow DEF SshInv, SettingsHold
<1>1. ASSUME cfg'.verifiedIp = None PROVE FirstVerifiedWasTested' /\ VerifiedIsLoadable'
  BY <1>1 DEF FirstVerifiedWasTested, VerifiedIsLoadable, VerifiedWasTested
<1>2. ASSUME created' = created, cfg'.key = cfg.key, cfg'.login = cfg.login,
             cfg'.hostKey = cfg.hostKey, cfg'.scannedAs = cfg.scannedAs
      PROVE  HostKeyWasScannedHere'
  BY <1>0, <1>2 DEF HostKeyWasScannedHere
<1>3. ASSUME UNCHANGED <<cfg, created>> PROVE Goal
  BY <1>0, <1>2, <1>3, KeptVerified
<1>4. ASSUME NEW ip \in Ip, NEW s \in Status, UpsertPc(ip, s) PROVE Goal
  <2>1. created' = created
    BY <1>4 DEF UpsertPc
  <2> QED BY <1>0, <1>1, <1>2, <1>3, <1>4, <2>1, UpsertRow
<1>5. ASSUME DeletePc PROVE Goal
  <2>1. cfg'.verifiedIp = None /\ cfg'.hostKey = None
    BY <1>5 DEF DeletePc, NoCfg
  <2> QED BY <1>1, <2>1 DEF HostKeyWasScannedHere
<1>6. ASSUME NEW login \in Login, NEW enabled \in BOOLEAN, SaveSettings(login, enabled)
      PROVE  Goal
  <2>1. CASE cfg'.hostKey = None /\ cfg'.verifiedIp = None
    BY <1>1, <2>1 DEF HostKeyWasScannedHere
  <2>2. CASE /\ created' = created /\ cfg'.key = cfg.key /\ cfg'.login = cfg.login
             /\ cfg'.hostKey = cfg.hostKey /\ cfg'.verifiedIp = cfg.verifiedIp
             /\ cfg'.testedAs = cfg.testedAs /\ cfg'.scannedAs = cfg.scannedAs
    BY <1>0, <1>2, <2>2, KeptVerified
  <2> QED BY <1>0, <1>6, <2>1, <2>2, SaveRow
<1>7. ASSUME ConfirmHostKey PROVE Goal
  <2>1. created' = created /\ scan.stage = "candidate"
    BY <1>7 DEF ConfirmHostKey
  <2>2. CASE cfg' = cfg
    BY <1>3, <2>1, <2>2
  <2>3. CASE /\ Matches(scan.ip, scan.rev) /\ cfg'.key = cfg.key /\ cfg'.login = cfg.login
             /\ cfg'.scannedAs = scan.as /\ cfg'.verifiedIp = None
    <3>1. SUFFICES ASSUME created = 1
                   PROVE  scan.as = [key |-> cfg.key, login |-> cfg.login]
      BY <1>1, <2>1, <2>3 DEF HostKeyWasScannedHere
    <3>2. HasCfg /\ cfg.rev = scan.rev /\ cfg.key = 1
      BY <1>0, <2>3, <3>1 DEF Matches, RowHolds
    <3>3. /\ scan.as \in ScannedType /\ scan.as.key \in 1 .. created
          /\ StillStored(scan.as.key, scan.rev) => scan.as.login = cfg.login
      BY <1>0, <2>1 DEF CandidateHolds, ReadBefore
    <3>4. scan.as.key = cfg.key
      BY <3>1, <3>2, <3>3
    <3>5. scan.as.login = cfg.login
      BY <3>2, <3>3, <3>4 DEF StillStored
    <3> QED BY <3>3, <3>4, <3>5 DEF ScannedType
  <2> QED BY <1>0, <1>7, <2>2, <2>3, ConfirmRow
<1>8. ASSUME NEW t \in Tester, TestSucceeds(t) PROVE Goal
  <2> DEFINE c == tester[t].conn
  <2>1. created' = created /\ keyFile' = keyFile /\ known' = known /\ pc' = pc
        /\ tester[t].stage = "connecting"
    BY <1>8 DEF TestSucceeds
  <2>2. CASE cfg' = cfg
    BY <1>3, <2>1, <2>2
  <2>3. CASE /\ Matches(c.ip, c.rev)
             /\ cfg'.key = cfg.key /\ cfg'.login = cfg.login
             /\ cfg'.hostKey = cfg.hostKey /\ cfg'.scannedAs = cfg.scannedAs
             /\ cfg'.testedAs = Tested(c)
    <3>1. HostKeyWasScannedHere'
      BY <1>2, <2>1, <2>3
    <3>2. SUFFICES ASSUME created = 1 PROVE VerifiedWasTested' /\ Loadable'
      BY <2>1, <3>1 DEF FirstVerifiedWasTested, VerifiedIsLoadable
    <3>3. HasCfg /\ cfg.rev = c.rev /\ cfg.key = 1 /\ pc.ip = c.ip
      BY <1>0, <2>3, <3>2 DEF Matches, RowHolds
    <3>4. /\ c.key \in 1 .. created /\ c.hostKey \in HostKey
          /\ StillStored(c.key, c.rev) => c.login = cfg.login /\ c.hostKey = cfg.hostKey
          /\ keyFile[c.key].private # 0 /\ <<c.key, c.hostKey>> \in known
      BY <1>0, <2>1 DEF TestHolds, ReadBefore
    <3>5. c.key = cfg.key
      BY <3>2, <3>3, <3>4
    <3>6. c.login = cfg.login /\ c.hostKey = cfg.hostKey
      BY <3>3, <3>4, <3>5 DEF StillStored
    <3>7. VerifiedWasTested'
      BY <2>1, <2>3, <3>3, <3>5, <3>6 DEF VerifiedWasTested, Tested, Conn
    <3>8. Loadable'
      BY <2>1, <2>3, <3>3, <3>4, <3>5, <3>6, SshAssumption DEF Loadable, HasCfg
    <3> QED BY <3>7, <3>8
  <2> QED BY <1>0, <1>8, <2>2, <2>3, SucceedRow
<1>9. ASSUME NEW t \in Tester, RecordFailure(t) PROVE Goal
  <2>1. created' = created
    BY <1>9 DEF RecordFailure
  <2> QED BY <1>0, <1>1, <1>2, <1>3, <1>9, <2>1, FailRow
<1> HIDE DEF Goal
<1>10. Goal
  BY <1>3, <1>4, <1>5, <1>6, <1>7, <1>8, <1>9
  DEF Next, AdminStep, TestStep, StatusChanges, GenerateKey, PlacePrivate, PlacePublic, GenerationFails, ScanReadPc,
      ScanHostKey, WriteKnownHosts, TestReadPc, TestLoad, TestFails, MarkOnline, Restart,
      sshVars
<1> QED BY <1>10 DEF Goal
-----------------------------------------------------------------------------
LEMMA InitInv == Init => SshInv
<1> SUFFICES ASSUME Init PROVE SshInv
  OBVIOUS
<1>1. TypeOK
  <2>1. NoPc \in [ip: Ip \cup {None}, status: Status]
    BY DEF NoPc, Status
  <2>2. NoCfg \in CfgType
    BY SshAssumption DEF NoCfg, CfgType
  <2>3. created \in 0 .. Incarnations /\ epoch \in 0 .. MaxEpoch
    BY SshAssumption DEF Init
  <2>4. NoScan \in [stage: {"none", "reading", "candidate", "saved"}, ip: Ip \cup {None},
                    rev: Nat, hostKey: HostKey \cup {None}, as: ScannedType \cup {None}]
    BY DEF NoScan
  <2>5. NoTest \in [stage: {"none", "loading", "connecting", "failed", "reached"},
                    conn: ConnType]
    <3>1. NoConn \in ConnType
      BY SshAssumption DEF NoConn, ConnType
    <3> QED BY <3>1 DEF NoTest
  <2>6. NoFiles \in [private: Nat, public: Nat]
    BY DEF NoFiles
  <2> QED BY <2>1, <2>2, <2>3, <2>4, <2>5, <2>6 DEF Init, TypeOK
<1>2. cfg.key = 0 /\ cfg.verifiedIp = None /\ cfg.hostKey = None /\ cfg = NoCfg
  BY DEF Init, NoCfg
<1>3. scan.stage = "none" /\ \A t \in Tester : tester[t].stage = "none"
  BY DEF Init, NoScan, NoTest
<1>4. \A k \in Key : FilesHold(k)
  BY DEF Init, NoFiles, FilesHold
<1> QED
  BY <1>1, <1>2, <1>3, <1>4
  DEF SshInv, SettingsHold, VerifiedForPresentPc, FirstVerifiedWasTested, VerifiedWasTested,
      VerifiedIsLoadable, HostKeyWasScannedHere, RowHolds, HasCfg, CandidateHolds, TestHolds

LEMMA NextInv == SshInv /\ [Next]_sshVars => SshInv'
<1> SUFFICES ASSUME SshInv, [Next]_sshVars PROVE SshInv'
  OBVIOUS
<1>1. TypeOK'
  BY NextRow, FileTypes, ScanTypes, NextTests DEF SshInv, SettingsHold, TypeOK, TestType
<1> QED
  BY <1>1, NextRow, FileTypes, NextCandidate, NextTestHolds, NextVerified
  DEF SshInv, SettingsHold

\* Settings never outlive their PC, a verification is one of the present
\* address and, for the first settings of a PC, of exactly these settings, which
\* can then be loaded, however edits, tests, scans and deletions interleave.
THEOREM SettingsAlwaysHold == Spec => []SettingsHold
<1>1. SshInv => SettingsHold
  BY DEF SshInv
<1> QED BY <1>1, InitInv, NextInv, PTL DEF Spec

\* A confirmed host key was scanned under the user and port it is stored with,
\* as long as the settings are the first of their PC.
THEOREM HostKeyAlwaysScannedHere == Spec => []HostKeyWasScannedHere
<1>1. SshInv => HostKeyWasScannedHere
  BY DEF SshInv
<1> QED BY <1>1, InitInv, NextInv, PTL DEF Spec
-----------------------------------------------------------------------------
\* A step of the job leaves rows and files alone; every other step is one of
\* the administration.
LEMMA FlowSteps == ASSUME [FlowNext]_flowVars PROVE [Next]_sshVars
  BY DEF FlowNext, flowVars, Next, JobStep, Request, Accept, ReadRow, Compare, SshSucceeds,
         SshFails, CheckAddress, Observe

\* A system that shuts PCs down is one that administers them.
THEOREM FlowImplementsSettings == FlowSpec => Spec
<1>1. FlowInit => Init
  BY DEF FlowInit
<1>2. [FlowNext]_flowVars => [Next]_sshVars
  BY FlowSteps
<1> QED BY <1>1, <1>2, PTL DEF FlowSpec, Spec

\* How a step moves the job.
JobMoves ==
  \/ job'.stage \in Waiting
  \/ /\ job.stage = "accepting" /\ job'.stage = "queued" /\ UNCHANGED sshVars
     /\ Ready(job.ip) /\ job'.expected = Conn(job.ip) /\ job'.at = epoch
  \/ /\ job.stage \notin Waiting /\ job'.expected = job.expected /\ job'.at = job.at

LEMMA NextJob ==
  ASSUME TypeOK, JobTyped, [FlowNext]_flowVars PROVE JobTyped' /\ JobMoves
<1> DEFINE Goal == JobTyped' /\ JobMoves
<1>0. /\ pc.ip \in Ip \cup {None} /\ NoJob \in JobType
      /\ \A s \in {"none", "accepting"} : s \in Waiting
  <2>1. NoConn \in ConnType
    BY Numbers DEF NoConn, ConnType
  <2> QED BY <2>1 DEF TypeOK, NoJob, JobType, Waiting
<1>1. ASSUME job' = NoJob PROVE Goal
  BY <1>0, <1>1 DEF JobTyped, JobMoves, NoJob
<1>2. ASSUME NEW from \in {"queued", "answered"}, NEW to \in {"checking", "rechecking"},
             ReadRow(from, to)
      PROVE  Goal
  <2>1. CASE Registered /\ job' = [job EXCEPT !.stage = to, !.ip = pc.ip]
    <3>0. pc.ip # None
      BY <2>1 DEF Registered
    <3>1. job' = [stage |-> to, ip |-> pc.ip, expected |-> job.expected, at |-> job.at,
                  tries |-> job.tries, streak |-> job.streak]
      BY <2>1 DEF JobTyped, JobType
    <3>2. job.stage = from
      BY <1>2 DEF ReadRow
    <3> QED BY <1>0, <3>0, <3>1, <3>2 DEF JobTyped, JobType, JobMoves, Waiting
  <2> QED BY <1>1, <1>2, <2>1 DEF ReadRow
<1>3. ASSUME Request PROVE Goal
  <2>1. CASE Registered /\ job' = [NoJob EXCEPT !.stage = "accepting", !.ip = pc.ip]
    <3>0. pc.ip # None
      BY <2>1 DEF Registered
    <3>1. job' = [stage |-> "accepting", ip |-> pc.ip, expected |-> NoConn, at |-> 0,
                  tries |-> 0, streak |-> 0]
      BY <2>1 DEF NoJob
    <3>2. NoConn \in ConnType
      BY Numbers DEF NoConn, ConnType
    <3> QED BY <1>0, <3>0, <3>1, <3>2 DEF JobTyped, JobType, JobMoves, Waiting
  <2> QED BY <1>1, <1>3, <2>1 DEF Request
<1>4. ASSUME Accept PROVE Goal
  <2>1. CASE Ready(job.ip)
    <3>1. job' = [job EXCEPT !.stage = "queued", !.expected = Conn(job.ip), !.at = epoch]
      BY <1>4, <2>1 DEF Accept
    <3>2. job' = [stage |-> "queued", ip |-> job.ip, expected |-> Conn(job.ip), at |-> epoch,
                  tries |-> job.tries, streak |-> job.streak]
      BY <3>1 DEF JobTyped, JobType
    <3>3. job.stage = "accepting" /\ UNCHANGED sshVars
      BY <1>4 DEF Accept
    <3>4. Conn(job.ip) \in ConnType /\ epoch \in Nat
      BY ConnFacts, Numbers DEF JobTyped, JobType
    <3>5. /\ job'.stage = "queued" /\ job'.expected = Conn(job.ip) /\ job'.at = epoch
          /\ job'.ip = job.ip /\ job.ip # None
      BY <3>2, <3>3 DEF JobTyped
    <3>6. job' \in JobType
      BY <3>2, <3>4 DEF JobTyped, JobType
    <3> QED BY <2>1, <3>3, <3>5, <3>6 DEF JobTyped, JobMoves
  <2>2. CASE ~Ready(job.ip)
    BY <1>1, <1>4, <2>2 DEF Accept
  <2> QED BY <2>1, <2>2
<1>5. ASSUME NEW to \in {"probing", "answered", "cleared", "watching", "refreshing"},
             job.stage \notin Waiting, job' = [job EXCEPT !.stage = to]
      PROVE  Goal
  <2>1. job' = [stage |-> to, ip |-> job.ip, expected |-> job.expected, at |-> job.at,
                tries |-> job.tries, streak |-> job.streak]
    BY <1>5 DEF JobTyped, JobType
  <2> QED BY <1>5, <2>1 DEF JobTyped, JobType, JobMoves, Waiting
<1>6. ASSUME NEW from \in {"checking", "rechecking"}, NEW to \in {"probing", "cleared"},
             Compare(from, to)
      PROVE  Goal
  <2>1. job.stage \notin Waiting
    BY <1>6 DEF Compare, Waiting
  <2>2. job' = [job EXCEPT !.stage = to] \/ job' = NoJob
    BY <1>6 DEF Compare
  <2> QED BY <1>1, <1>5, <2>1, <2>2
<1>7. ASSUME NEW from \in {"probing", "cleared"}, NEW to \in {"answered", "watching"},
             SshSucceeds(from, to)
      PROVE  Goal
  <2>1. job.stage \notin Waiting /\ job' = [job EXCEPT !.stage = to]
    BY <1>7 DEF SshSucceeds, Waiting
  <2> QED BY <1>5, <2>1
<1>8. ASSUME CheckAddress PROVE Goal
  <2>1. job.stage \notin Waiting
    BY <1>8 DEF CheckAddress, Waiting
  <2>2. job' = [job EXCEPT !.stage = "refreshing"] \/ job' = NoJob
    BY <1>8 DEF CheckAddress
  <2> QED BY <1>1, <1>5, <2>1, <2>2
<1>9. ASSUME NEW offline \in BOOLEAN, Observe(offline) PROVE Goal
  <2>1. PICK streak \in Nat, stage \in {"silent", "watching"} :
          \/ job' = NoJob
          \/ job' = [job EXCEPT !.stage = stage, !.streak = streak, !.tries = @ + 1]
    <3> DEFINE streak == IF offline THEN job.streak + 1 ELSE 0
               stage == IF ~Registered THEN "none" ELSE
                        IF streak = 2 THEN "silent" ELSE
                        IF job.tries + 1 = Attempts THEN "none" ELSE "watching"
    <3>1. streak \in Nat /\ stage \in {"none", "silent", "watching"}
      BY DEF JobTyped, JobType
    <3>2. \/ job' = NoJob
          \/ stage # "none" /\ job' = [job EXCEPT !.stage = stage, !.streak = streak,
                                                  !.tries = @ + 1]
      BY <1>9 DEF Observe
    <3> HIDE DEF streak, stage
    <3>3. CASE stage = "none"
      BY <3>2, <3>3
    <3>4. CASE stage # "none"
      BY <3>1, <3>2, <3>4
    <3> QED BY <3>3, <3>4
  <2>2. CASE job' = [job EXCEPT !.stage = stage, !.streak = streak, !.tries = @ + 1]
    <3>1. job' = [stage |-> stage, ip |-> job.ip, expected |-> job.expected, at |-> job.at,
                  tries |-> job.tries + 1, streak |-> streak]
      BY <2>2 DEF JobTyped, JobType
    <3>2. job.stage \notin Waiting /\ stage \in {"silent", "watching"} /\ streak \in Nat
      BY <1>9, <2>1 DEF Observe, Waiting
    <3> QED BY <3>1, <3>2 DEF JobTyped, JobType, JobMoves, Waiting
  <2> QED BY <1>1, <2>1, <2>2
<1>10. ASSUME UNCHANGED job PROVE Goal
  BY <1>10 DEF JobTyped, JobMoves
<1> HIDE DEF Goal
<1>11. ASSUME JobStep PROVE Goal
  BY <1>1, <1>2, <1>3, <1>4, <1>6, <1>7, <1>8, <1>9, <1>11 DEF JobStep, SshFails
<1>12. Goal
  BY <1>1, <1>10, <1>11 DEF FlowNext, flowVars
<1> QED BY <1>12 DEF Goal

LEMMA FlowInv ==
  SshInv /\ JobHolds /\ [FlowNext]_flowVars => SshInv' /\ JobHolds'
<1> SUFFICES ASSUME SshInv, JobHolds, [FlowNext]_flowVars PROVE SshInv' /\ JobHolds'
  OBVIOUS
<1>0. /\ TypeOK /\ RowHolds /\ [Next]_sshVars /\ RowMoves
      /\ JobTyped /\ JobTyped' /\ JobMoves
  BY FlowSteps, NextMoves, NextJob DEF SshInv, SettingsHold, JobHolds
<1>1. SUFFICES JobHolds'
  BY <1>0, NextInv
<1>2. CASE job'.stage \in Waiting
  BY <1>0, <1>2 DEF JobHolds
<1>3. CASE /\ UNCHANGED sshVars /\ Ready(job.ip)
           /\ job'.expected = Conn(job.ip) /\ job'.at = epoch
  <2>1. HasCfg /\ cfg.key = created /\ cfg' = cfg /\ created' = created /\ epoch' = epoch
    BY <1>0, <1>3 DEF Ready, Loadable, RowHolds, sshVars
  <2>2. job'.expected.key = cfg.key /\ job'.expected.rev = cfg.rev
    BY <1>0, <1>3, ConnFacts DEF JobTyped, JobType
  <2>3. cfg.key \in 1 .. created /\ cfg.rev <= cfg.rev
    BY <1>0, <2>1, Numbers DEF Key
  <2> QED BY <1>0, <1>3, <2>1, <2>2, <2>3 DEF JobHolds, ReadBefore, StillStored
<1>4. CASE job.stage \notin Waiting /\ job'.expected = job.expected /\ job'.at = job.at
  <2>1. /\ ReadBefore(job.expected.key, job.expected.rev)
        /\ StillStored(job.expected.key, job.expected.rev) => job.at = epoch
    BY <1>4 DEF JobHolds
  <2>2. job.expected.rev \in Nat
    BY <1>0 DEF JobTyped, JobType, ConnType
  <2>3. /\ job.expected.key \in 1 .. created'
        /\ job.expected.key = cfg'.key => job.expected.rev <= cfg'.rev
        /\ job.expected.key = cfg'.key /\ job.expected.rev = cfg'.rev => job.at = epoch'
    BY <1>0, <2>1, <2>2, VersionKept
  <2> QED BY <1>0, <1>4, <2>3 DEF JobHolds, ReadBefore, StillStored
<1> QED BY <1>0, <1>2, <1>3, <1>4 DEF JobMoves

\* When the last check lets the command go, neither address nor settings
\* changed since the request was accepted.
LEMMA Clears ==
  ASSUME SshInv, JobHolds, [FlowNext]_flowVars,
         job.stage = "rechecking", job'.stage = "cleared"
  PROVE  /\ epoch = job.at /\ cfg.enabled
         /\ cfg.verifiedIp = job.expected.ip /\ pc.ip = job.expected.ip
<1>0. TypeOK /\ VerifiedForPresentPc /\ JobTyped /\ "rechecking" \notin Waiting
  BY DEF SshInv, SettingsHold, JobHolds, Waiting
<1>1. Compare("rechecking", "cleared")
  <2>1. CASE UNCHANGED job
    BY <2>1
  <2>2. CASE job' = NoJob
    BY <2>2 DEF NoJob
  <2>3. CASE JobStep
    BY <2>2, <2>3 DEF JobStep, Request, Accept, ReadRow, Compare, SshSucceeds, SshFails,
                      CheckAddress, Observe
  <2> QED BY <2>1, <2>2, <2>3 DEF FlowNext, flowVars
<1>2. Ready(job.ip) /\ AsExpected
  BY <1>1 DEF Compare, NoJob
<1>3. /\ job.expected.ip = job.ip /\ job.expected.key = cfg.key
      /\ job.expected.rev = cfg.rev
  BY <1>0, <1>2, ConnFacts DEF AsExpected, JobTyped, JobType
<1>4. epoch = job.at
  BY <1>0, <1>3 DEF JobHolds, StillStored
<1>5. cfg.enabled /\ cfg.verifiedIp = job.ip
  BY <1>2 DEF Ready
<1>6. job.ip # None
  BY <1>0, <1>1 DEF JobTyped, Compare
<1> QED BY <1>0, <1>3, <1>4, <1>5, <1>6 DEF VerifiedForPresentPc

\* The command of a shutdown goes out only if address and settings are those
\* the request was accepted with and their test still stands; and no half
\* of a key is ever replaced or paired with another key's (generate_pc_ssh_key).
THEOREM ShutdownStepsHold == FlowSpec => StepsHold
<1> DEFINE Cleared == job.stage = "rechecking" /\ job'.stage = "cleared" =>
                        /\ epoch = job.at
                        /\ cfg.enabled
                        /\ cfg.verifiedIp = job.expected.ip
                        /\ pc.ip = job.expected.ip
           Kept == \A k \in Key :
                     /\ keyFile[k].private # 0 => keyFile'[k].private = keyFile[k].private
                     /\ keyFile[k].public # 0 => keyFile'[k].public = keyFile[k].public
                     /\ keyFile'[k].public \in {0, keyFile'[k].private}
<1>1. FlowInit => SshInv /\ JobHolds
  <2> SUFFICES ASSUME FlowInit PROVE SshInv /\ JobHolds
    OBVIOUS
  <2>1. SshInv /\ job = NoJob
    BY InitInv DEF FlowInit
  <2>2. NoJob \in JobType /\ NoJob.stage = "none"
    <3>1. NoConn \in ConnType
      BY SshAssumption DEF NoConn, ConnType
    <3> QED BY <3>1 DEF NoJob, JobType, Waiting
  <2> QED BY <2>1, <2>2 DEF JobHolds, JobTyped, Waiting
<1>2. SshInv /\ JobHolds /\ [FlowNext]_flowVars => [Cleared]_flowVars
  BY Clears
<1>3. SshInv /\ [FlowNext]_flowVars => [Kept]_sshVars
  BY FlowSteps, NextFiles DEF SshInv, SettingsHold, FilesMove, FilesHold
<1>4. FlowSpec => [](SshInv /\ JobHolds)
  BY <1>1, FlowInv, PTL DEF FlowSpec
<1>5. FlowSpec => ClearedAsAccepted
  BY <1>2, <1>4, PTL DEF FlowSpec, ClearedAsAccepted
<1>6. FlowSpec => KeyNeverReplaced
  BY <1>3, <1>4, PTL DEF FlowSpec, KeyNeverReplaced
<1> QED BY <1>5, <1>6 DEF StepsHold
=============================================================================
