------------------------ MODULE ProviderWorker_proofs -----------------------
(***************************************************************************)
(* Theorems about ProviderWorker, for any number of logins, any delays and *)
(* any upstream: no request carries a torn token, Retry-After holds, and   *)
(* no batch has a metric twice.                                            *)
(*                                                                         *)
(* The argument for the token: the parts of an inode are those of one      *)
(* login or missing, and what was read of it is what it still holds as     *)
(* long as its stamp is that of the opening.  For Retry-After: the timer   *)
(* never runs out before the time asked for has passed.  For the batches:  *)
(* a repeated row has been passed over, or the answer is refused.          *)
(***************************************************************************)
EXTENDS ProviderWorker, TLAPS

-----------------------------------------------------------------------------
(* The token. *)

Tokens == Logins \X Logins
Files  == [stamp : Nat, parts : Tokens]

\* A file holds the parts of one login of n, one part of it, or none.
OneLogin(parts, n) ==
  \/ parts[2] = Absent
  \/ parts[1] = parts[2] /\ parts[1] \in 1..n

FilesInv ==
  /\ logins \in Logins
  /\ path \in 0..logins
  /\ inodes \in [Logins -> Files]
  /\ \A i \in Logins : OneLogin(inodes[i].parts, logins)

\* While a file is open, its stamp tells whether it has been written since.
Unwritten == inodes[stage.inode].stamp = stage.stamp

Opened ==
  /\ stage.inode \in 1..logins
  /\ stage.stamp \in Nat
  /\ stage.stamp <= inodes[stage.inode].stamp

Requests == [at : {"request"}, i : Nat, legacy : BOOLEAN, token : Tokens]

ReadInv ==
  /\ stage.at = "open" => stage.before \in 1..logins
  /\ stage.at = "first" => Opened
  /\ stage.at = "second" =>
       /\ Opened
       /\ stage.read \in Logins
       /\ Unwritten => stage.read = inodes[stage.inode].parts[1]
  /\ stage.at = "after" =>
       /\ Opened
       /\ stage.token \in Tokens
       /\ Unwritten => stage.token = inodes[stage.inode].parts
  /\ stage.at = "request" => stage \in Requests
  /\ TokenIsWhole

TokenInv == FilesInv /\ ReadInv

\* The environment's writes leave what is open alone, or give it another stamp.
LEMMA WrittenFacts ==
  ASSUME FilesInv, path # Absent, NEW parts \in Tokens
  PROVE  /\ path \in Logins /\ path \in 1..logins
         /\ Written(parts) \in Files
         /\ Written(parts).parts = parts
         /\ Written(parts).stamp > inodes[path].stamp
<1>1. path \in Logins /\ path \in 1..logins
  BY CollectAssumption DEF FilesInv, Logins, Absent
<1>2. inodes[path] \in Files /\ inodes[path].stamp \in Nat
  BY <1>1 DEF FilesInv, Files
<1> QED
  BY <1>1, <1>2 DEF Written, Files

\* One write to the file at the path, or a login more.
LEMMA WriteKeeps ==
  ASSUME TokenInv, path # Absent, NEW parts \in Tokens,
         inodes' = [inodes EXCEPT ![path] = Written(parts)],
         UNCHANGED <<path, stage, type>>,
         logins' \in Logins, logins' >= logins,
         OneLogin(parts, logins')
  PROVE  TokenInv'
<1> USE DEF TokenInv
<1>1. logins \in Nat /\ logins' \in Nat /\ path \in 0..logins'
  BY CollectAssumption DEF FilesInv, Logins
<1>2. inodes' \in [Logins -> Files]
  BY WrittenFacts DEF FilesInv
<1>3. \A i \in Logins : OneLogin(inodes'[i].parts, logins')
  <2> SUFFICES ASSUME NEW i \in Logins
               PROVE  OneLogin(inodes'[i].parts, logins')
    OBVIOUS
  <2>1. CASE i = path
    <3>1. inodes'[i].parts = parts
      BY <2>1, WrittenFacts DEF FilesInv
    <3> QED
      BY <3>1 DEF OneLogin
  <2>2. CASE i # path
    <3>1. inodes'[i] = inodes[i] /\ OneLogin(inodes[i].parts, logins)
      BY <2>2 DEF FilesInv
    <3> QED
      BY <1>1, <3>1 DEF OneLogin
  <2> QED
    BY <2>1, <2>2
<1>4. FilesInv'
  BY <1>1, <1>2, <1>3 DEF FilesInv
<1>5. ASSUME Opened
      PROVE  Opened' /\ (Unwritten' => Unwritten /\ inodes'[stage.inode] = inodes[stage.inode])
  <2>1. stage.inode \in Logins /\ stage.inode \in 1..logins'
    BY <1>1, <1>5, CollectAssumption DEF Opened, Logins
  <2>2. CASE stage.inode = path
    <3>1. inodes'[path].stamp > inodes[path].stamp /\ inodes[path].stamp \in Nat /\ inodes'[path].stamp \in Nat
      BY WrittenFacts, <1>2 DEF FilesInv, Files
    <3> QED
      BY <1>5, <2>1, <2>2, <3>1 DEF Opened, Unwritten
  <2>3. CASE stage.inode # path
    <3>1. inodes'[stage.inode] = inodes[stage.inode]
      BY <2>1, <2>3 DEF FilesInv
    <3> QED
      BY <1>5, <2>1, <3>1 DEF Opened, Unwritten
  <2> QED
    BY <2>2, <2>3
<1>6. TokenIsWhole'
  BY <1>1 DEF ReadInv, TokenIsWhole
<1>7. stage.at = "open" => stage.before \in 1..logins'
  BY <1>1 DEF ReadInv
<1>8. ReadInv'
  BY <1>5, <1>6, <1>7 DEF ReadInv
<1> QED
  BY <1>4, <1>8

\* A file that loses its name stays as it is while it is open.
LEMMA UnlinkedFacts ==
  ASSUME FilesInv
  PROVE  /\ Unlinked \in [Logins -> Files]
         /\ \A i \in Logins : OneLogin(Unlinked[i].parts, logins)
         /\ stage.at \in {"first", "second", "after"} /\ stage.inode \in Logins =>
              Unlinked[stage.inode] = inodes[stage.inode]
<1>1. Blank \in Files /\ Blank.parts[2] = Absent
  BY CollectAssumption DEF Blank, Files, Tokens, Logins, Absent
<1>2. Unlinked = inodes \/ Unlinked = [inodes EXCEPT ![path] = Blank]
  BY DEF Unlinked
<1>3. Unlinked \in [Logins -> Files]
  BY <1>1, <1>2 DEF FilesInv
<1>4. \A i \in Logins : Unlinked[i] \in {inodes[i], Blank}
  BY <1>2 DEF FilesInv
<1>5. \A i \in Logins : OneLogin(Unlinked[i].parts, logins)
  BY <1>1, <1>4 DEF FilesInv, OneLogin
<1>6. ASSUME stage.at \in {"first", "second", "after"}, stage.inode \in Logins
      PROVE  Unlinked[stage.inode] = inodes[stage.inode]
  BY <1>6 DEF Unlinked, FilesInv
<1> QED
  BY <1>3, <1>5, <1>6

\* A step that leaves the open file as it is keeps what was read of it.
LEMMA SparedKeeps ==
  ASSUME TokenInv, FilesInv', UNCHANGED <<stage, type>>, logins' >= logins,
         stage.at \in {"first", "second", "after"} => inodes'[stage.inode] = inodes[stage.inode]
  PROVE  TokenInv'
<1> USE DEF TokenInv
<1>1. logins \in Nat /\ logins' \in Nat
  BY CollectAssumption DEF FilesInv, Logins
<1>2. ASSUME stage.at \in {"first", "second", "after"}, Opened
      PROVE  Opened' /\ (Unwritten' <=> Unwritten)
  BY <1>1, <1>2 DEF Opened, Unwritten
<1>3. TokenIsWhole'
  BY <1>1 DEF ReadInv, TokenIsWhole
<1>4. stage.at = "open" => stage.before \in 1..logins'
  BY <1>1 DEF ReadInv
<1>5. ReadInv'
  BY <1>2, <1>3, <1>4 DEF ReadInv
<1> QED
  BY <1>5

LEMMA RenameKeeps ==
  ASSUME TokenInv, Rename
  PROVE  TokenInv'
<1> USE DEF TokenInv
<1> DEFINE new == [stamp |-> 0, parts |-> <<logins', logins'>>]
<1>1. /\ logins \in Nat /\ logins' = logins + 1
      /\ logins' \in Logins /\ logins' \in 1..logins' /\ logins' > logins
  BY CollectAssumption DEF FilesInv, Logins, Rename
<1>2. path' = logins' /\ inodes' = [Unlinked EXCEPT ![logins'] = new]
  BY DEF Rename
<1>3. new \in Files /\ OneLogin(new.parts, logins')
  BY <1>1 DEF Files, Tokens, OneLogin
<1>4. inodes' \in [Logins -> Files]
  BY <1>2, <1>3, UnlinkedFacts
<1>5. \A i \in Logins : OneLogin(inodes'[i].parts, logins')
  <2> SUFFICES ASSUME NEW i \in Logins
               PROVE  OneLogin(inodes'[i].parts, logins')
    OBVIOUS
  <2>1. CASE i = logins'
    BY <1>2, <1>3, <2>1, UnlinkedFacts
  <2>2. CASE i # logins'
    <3>1. inodes'[i] = Unlinked[i] /\ OneLogin(Unlinked[i].parts, logins)
      BY <1>2, <2>2, UnlinkedFacts
    <3> QED
      BY <1>1, <3>1 DEF OneLogin
  <2> QED
    BY <2>1, <2>2
<1>6. FilesInv'
  BY <1>1, <1>2, <1>4, <1>5 DEF FilesInv
<1>7. ASSUME stage.at \in {"first", "second", "after"}
      PROVE  inodes'[stage.inode] = inodes[stage.inode]
  <2>1. Opened
    BY <1>7 DEF ReadInv
  <2>2. stage.inode \in Logins /\ stage.inode # logins'
    BY <1>1, <2>1, CollectAssumption DEF Opened, Logins
  <2> QED
    BY <1>2, <1>7, <2>2, UnlinkedFacts
<1> QED
  BY <1>1, <1>6, <1>7, SparedKeeps DEF Rename

LEMMA LogoutKeeps ==
  ASSUME TokenInv, Logout
  PROVE  TokenInv'
<1> USE DEF TokenInv
<1>1. path' \in 0..logins /\ inodes' = Unlinked /\ UNCHANGED <<type, logins, stage>>
  BY CollectAssumption DEF Logout, Absent, FilesInv, Logins
<1>2. FilesInv'
  BY <1>1, UnlinkedFacts DEF FilesInv
<1>3. ASSUME stage.at \in {"first", "second", "after"}
      PROVE  inodes'[stage.inode] = inodes[stage.inode]
  <2>1. Opened
    BY <1>3 DEF ReadInv
  <2>2. stage.inode \in Logins
    BY <2>1, CollectAssumption DEF Opened, FilesInv, Logins
  <2> QED
    BY <1>1, <1>3, <2>2, UnlinkedFacts
<1> QED
  BY <1>1, <1>2, <1>3, SparedKeeps, CollectAssumption DEF FilesInv, Logins

LEMMA EnvironmentKeeps ==
  ASSUME TokenInv, Environment
  PROVE  TokenInv'
<1> USE DEF TokenInv
<1>0. logins \in Nat /\ logins \in Logins /\ 0 \in Logins /\ path \in 0..logins
  BY CollectAssumption DEF FilesInv, Logins
<1>1. CASE Change \/ ChangeKeyring
  <2>1. UNCHANGED <<type, cliVars, stage>>
    BY <1>1 DEF Change, ChangeKeyring
  <2> QED
    BY <2>1 DEF cliVars, FilesInv, ReadInv, Opened, Unwritten, TokenIsWhole
<1>2. CASE Truncate
  <2>1. logins' \in Logins /\ logins' >= logins
    BY <1>0, <1>2, CollectAssumption DEF Truncate, Logins
  <2>2. NoToken \in Tokens /\ OneLogin(NoToken, logins')
    BY <1>0 DEF NoToken, Tokens, OneLogin, Absent
  <2> QED
    BY <1>2, <2>1, <2>2, WriteKeeps DEF Truncate, NoToken
<1>3. CASE WriteFirst
  <2>1. <<logins, Absent>> \in Tokens /\ OneLogin(<<logins, Absent>>, logins)
    BY <1>0 DEF Tokens, OneLogin, Absent
  <2>3. /\ inodes' = [inodes EXCEPT ![path] = Written(<<logins, Absent>>)] /\ path # Absent
        /\ logins' = logins /\ UNCHANGED <<path, stage, type>>
    BY <1>3 DEF WriteFirst
  <2>4. logins' \in Logins /\ logins' >= logins /\ OneLogin(<<logins, Absent>>, logins')
    BY <1>0, <2>1, <2>3
  <2> QED
    BY <2>1, <2>3, <2>4, WriteKeeps
<1>4. CASE WriteSecond
  <2>1. logins \in 1..logins
    BY <1>0, <1>4 DEF WriteSecond, Absent
  <2>2. <<logins, logins>> \in Tokens /\ OneLogin(<<logins, logins>>, logins)
    BY <1>0, <2>1 DEF Tokens, OneLogin
  <2>3. /\ inodes' = [inodes EXCEPT ![path] = Written(<<logins, logins>>)] /\ path # Absent
        /\ logins' = logins /\ UNCHANGED <<path, stage, type>>
    BY <1>4 DEF WriteSecond
  <2>4. logins' \in Logins /\ logins' >= logins /\ OneLogin(<<logins, logins>>, logins')
    BY <1>0, <2>2, <2>3
  <2> QED
    BY <2>2, <2>3, <2>4, WriteKeeps
<1> QED
  BY <1>1, <1>2, <1>3, <1>4, RenameKeeps, LogoutKeeps DEF Environment

\* Every step of a collection but the reading ends it, or passes the token on.
LEMMA RequestKeeps ==
  ASSUME TokenInv, NEW i \in Nat, NEW token \in Tokens,
         type \in FileTypes => token[1] = token[2] /\ token[1] \in 1..logins,
         stage' = Request(i, token), UNCHANGED worldVars
  PROVE  TokenInv'
<1> USE DEF TokenInv
<1>1. stage' \in Requests /\ stage'.at = "request" /\ stage'.token = token
  BY DEF Request, Requests
<1>2. FilesInv'
  BY DEF FilesInv, worldVars
<1>3. ReadInv'
  BY <1>1 DEF ReadInv, TokenIsWhole, worldVars
<1> QED
  BY <1>2, <1>3

LEMMA EndKeeps ==
  ASSUME TokenInv, stage'.at \in {"ended", "credential", "idle"}, UNCHANGED worldVars
  PROVE  TokenInv'
BY DEF TokenInv, FilesInv, ReadInv, TokenIsWhole, worldVars

LEMMA RestAt ==
  /\ \A class, r, ids : Ended(class, r, ids).at = "ended"
  /\ \A class : Failed(class).at = "ended"
  /\ Idle.at = "idle" /\ Stage("credential").at = "credential"
BY DEF Ended, Failed, Idle, Stage

\* readAuthFile: what is read is remembered with the stamp of the opening.
LEMMA ReadKeeps ==
  ASSUME TokenInv, LookBefore \/ OpenFile \/ ReadFirst \/ ReadSecond
  PROVE  TokenInv'
<1> USE DEF TokenInv
<1>0. UNCHANGED worldVars /\ path \in 0..logins /\ logins \in Nat /\ \A n \in 1..logins : n \in Logins
  BY CollectAssumption DEF LookBefore, OpenFile, ReadFirst, ReadSecond, Goto, FilesInv, Logins
<1>1. FilesInv'
  BY <1>0 DEF FilesInv, worldVars
<1>2. CASE stage'.at = "ended"
  BY <1>0, <1>2, EndKeeps
<1>3. CASE stage' = [at |-> "open", before |-> path] /\ path # Absent
  BY <1>0, <1>1, <1>3 DEF ReadInv, TokenIsWhole, worldVars, Absent
<1>4. CASE /\ path \in 1..logins
           /\ stage' = [at |-> "first", inode |-> path, stamp |-> inodes[path].stamp]
  <2>1. inodes[path].stamp \in Nat
    BY <1>0, <1>4 DEF FilesInv, Files
  <2> QED
    BY <1>0, <1>1, <1>4, <2>1 DEF ReadInv, TokenIsWhole, Opened, worldVars
<1>5. CASE stage.at = "first" /\ ReadFirst
  <2>1. stage' = [at |-> "second", inode |-> stage.inode, stamp |-> stage.stamp,
                  read |-> inodes[stage.inode].parts[1]]
    BY <1>5 DEF ReadFirst, Goto
  <2>2. Opened /\ inodes[stage.inode].parts[1] \in Logins
    BY <1>0, <1>5 DEF ReadInv, Opened, FilesInv, Files, Tokens
  <2> QED
    BY <1>0, <1>1, <2>1, <2>2 DEF ReadInv, TokenIsWhole, Opened, Unwritten, worldVars
<1>6. CASE stage.at = "second" /\ ReadSecond
  <2>1. stage' = [at |-> "after", inode |-> stage.inode, stamp |-> stage.stamp,
                  token |-> <<stage.read, inodes[stage.inode].parts[2]>>]
    BY <1>6 DEF ReadSecond, Goto
  <2>2. /\ Opened /\ inodes[stage.inode].parts \in Tokens /\ stage.read \in Logins
        /\ Unwritten => stage.read = inodes[stage.inode].parts[1]
    BY <1>0, <1>6 DEF ReadInv, Opened, FilesInv, Files
  <2>3. /\ stage'.token \in Tokens
        /\ Unwritten => stage'.token = inodes[stage.inode].parts
    BY <2>1, <2>2 DEF Tokens
  <2> QED
    BY <1>0, <1>1, <2>1, <2>2, <2>3 DEF ReadInv, TokenIsWhole, Opened, Unwritten, worldVars
<1>7. LookBefore => stage'.at = "ended" \/ (stage' = [at |-> "open", before |-> path] /\ path # Absent)
  BY RestAt DEF LookBefore, Goto
<1>8. ASSUME OpenFile
      PROVE  \/ stage'.at = "ended"
             \/ /\ path \in 1..logins
                /\ stage' = [at |-> "first", inode |-> path, stamp |-> inodes[path].stamp]
  BY <1>8, RestAt DEF OpenFile, Goto, ReadInv
<1> QED
  BY <1>2, <1>3, <1>4, <1>5, <1>6, <1>7, <1>8 DEF ReadFirst, ReadSecond

\* The stamp of the opening is still that of the file: the token is one login's.
LEMMA LookAfterKeeps ==
  ASSUME TokenInv, LookAfter
  PROVE  TokenInv'
<1> USE DEF TokenInv
<1>1. UNCHANGED worldVars /\ stage.at = "after"
  BY DEF LookAfter, Goto
<1>2. CASE stage' = Failed("auth")
  BY <1>1, <1>2, RestAt, EndKeeps
<1>3. CASE /\ stage' = Request(1, stage.token)
           /\ Unwritten
           /\ Absent \notin {stage.token[1], stage.token[2]}
  <2>1. stage.inode \in Logins
    BY <1>1, CollectAssumption DEF ReadInv, Opened, FilesInv, Logins
  <2>2. stage.token \in Tokens /\ stage.token = inodes[stage.inode].parts
    BY <1>1, <1>3 DEF ReadInv
  <2>3. OneLogin(stage.token, logins)
    BY <2>1, <2>2 DEF FilesInv
  <2>4. stage.token[1] = stage.token[2] /\ stage.token[1] \in 1..logins
    BY <1>3, <2>3 DEF OneLogin
  <2> QED
    BY <1>1, <1>3, <2>2, <2>4, RequestKeeps
<1> QED
  BY <1>1, <1>2, <1>3 DEF LookAfter, Goto, Unwritten

LEMMA ProceedKeeps ==
  ASSUME TokenInv, Proceed
  PROVE  TokenInv'
<1> USE DEF TokenInv
<1>1. CASE TakeSecret
  <2>1. UNCHANGED worldVars /\ type \notin FileTypes /\ NoToken \in Tokens
    BY <1>1, CollectAssumption DEF TakeSecret, Goto, NoToken, Tokens, Logins, Absent
  <2> QED
    BY <1>1, <2>1, RequestKeeps, EndKeeps, RestAt DEF TakeSecret, Goto
<1>2. CASE LookBefore \/ OpenFile \/ ReadFirst \/ ReadSecond
  BY <1>2, ReadKeeps
<1>3. CASE LookAfter
  BY <1>3, LookAfterKeeps
<1>4. ASSUME stage.at = "request"
      PROVE  /\ stage \in Requests /\ stage.i + 1 \in Nat /\ stage.token \in Tokens
             /\ type \in FileTypes => stage.token[1] = stage.token[2] /\ stage.token[1] \in 1..logins
  BY <1>4 DEF ReadInv, TokenIsWhole, Requests
<1>5. ASSUME stage.at = "request", UNCHANGED worldVars, stage' = [stage EXCEPT !.legacy = TRUE]
      PROVE  TokenInv'
  <2>1. stage' \in Requests /\ stage'.token = stage.token
    BY <1>4, <1>5 DEF Requests
  <2>2. FilesInv'
    BY <1>5 DEF FilesInv, worldVars
  <2>3. stage'.at = "request"
    BY <2>1 DEF Requests
  <2> QED
    BY <1>4, <1>5, <2>1, <2>2, <2>3 DEF ReadInv, TokenIsWhole, worldVars
<1>6. CASE FallBack
  BY <1>5, <1>6 DEF FallBack, Goto
<1>7. CASE Answer
  <2>1. CASE Goto(Request(stage.i + 1, stage.token))
    BY <1>4, <1>7, <2>1, RequestKeeps DEF Answer, Goto
  <2>2. CASE \E r \in Readings[type] : Goto(Ended("none", 0, r.ids))
    BY <2>2, RestAt, EndKeeps DEF Goto
  <2> QED
    BY <1>7, <2>1, <2>2 DEF Answer
<1>8. CASE Misread
  <2>1. CASE Goto([stage EXCEPT !.legacy = TRUE])
    BY <1>5, <1>8, <2>1 DEF Misread, Goto
  <2>2. CASE \E class : Goto(Failed(class))
    BY <2>2, RestAt, EndKeeps DEF Goto
  <2> QED
    BY <1>8, <2>1, <2>2 DEF Misread
<1>9. CASE Refuse
  BY <1>9, RestAt, EndKeeps DEF Refuse, Goto
<1> QED
  BY <1>1, <1>2, <1>3, <1>6, <1>7, <1>8, <1>9 DEF Proceed

LEMMA TokenInit == WorkerInit => TokenInv
<1> SUFFICES ASSUME WorkerInit PROVE TokenInv
  OBVIOUS
<1>1. 0 \in Logins /\ logins = 0 /\ path = 0
  BY CollectAssumption DEF WorkerInit, CollectInit, Logins, Absent
<1>2. Blank \in Files /\ Blank.parts[2] = Absent
  BY <1>1 DEF Blank, Files, Tokens, Absent
<1>3. FilesInv
  BY <1>1, <1>2 DEF WorkerInit, CollectInit, FilesInv, OneLogin
<1>4. ReadInv
  BY RestAt DEF WorkerInit, CollectInit, ReadInv, TokenIsWhole
<1> QED
  BY <1>3, <1>4 DEF TokenInv

LEMMA TokenNext == TokenInv /\ [WorkerNext]_workerVars => TokenInv'
<1> SUFFICES ASSUME TokenInv, [WorkerNext]_workerVars PROVE TokenInv'
  OBVIOUS
<1>1. CASE World
  BY <1>1, EnvironmentKeeps DEF World
<1>2. CASE Collect
  BY <1>2, ProceedKeeps DEF Collect
<1>3. CASE BeginRun \/ BeginRefresh
  <2>1. UNCHANGED worldVars /\ stage' = Stage("credential")
    BY <1>3 DEF BeginRun, BeginRefresh, Begin
  <2> QED
    BY <2>1, RestAt, EndKeeps
<1>4. CASE EndRun \/ EndRefresh
  <2>1. UNCHANGED worldVars /\ stage' = Idle
    BY <1>4 DEF EndRun, EndRefresh, Release
  <2> QED
    BY <2>1, RestAt, EndKeeps
<1>5. CASE UNCHANGED collectVars
  BY <1>5 DEF collectVars, TokenInv, FilesInv, ReadInv, Opened, Unwritten, TokenIsWhole
<1> QED
  BY <1>1, <1>2, <1>3, <1>4, <1>5
  DEF WorkerNext, Tick, PublishRun, PublishRefresh, workerVars, collectVars

\* TokenIsWhole: for any number of logins, in place or by rename, readAuthFile gives
\* out a token of one login or none (codexusage.go readAuthFile, grokusage.go
\* readStableAuth), provided that every write leaves another modification time.
THEOREM TokensAreWhole == WorkerSpec => []TokenIsWhole
<1>1. TokenInv => TokenIsWhole
  BY DEF TokenInv, ReadInv
<1> QED
  BY <1>1, TokenInit, TokenNext, PTL DEF WorkerSpec

-----------------------------------------------------------------------------
(* Retry-After. *)

Wishes == [left : Nat, kept : BOOLEAN]

\* While a wish to be left alone is heeded the timer has at least that long to go, and
\* the periodic worker is not collecting.
WaitInv ==
  /\ embargo \in Wishes
  /\ Heeded(embargo) => wait \in Nat /\ wait >= embargo.left /\ holder # "run"
  /\ stage.at = "ended" =>
       /\ stage.retryAfter \in Nat
       /\ stage.retryAfter > 0 => stage.class = "rate_limited"

\* A duration that fits is not changed by the conversion.
LEMMA SecondsFit ==
  ASSUME NEW r \in 1..MaxSeconds
  PROVE  Seconds(r) = r
<1>1. MaxSeconds \in Nat
  BY WorkerAssumption
<1> DEFINE n == 2 * (MaxSeconds + 1)
           x == r + MaxSeconds + 1
<1>2. n \in Nat /\ n > 0 /\ x \in 0..(n - 1)
  BY <1>1
<1>3. x % n = x
  <2> HIDE DEF n, x
  <2> QED
    BY <1>2
<1> QED
  BY <1>1, <1>3 DEF Seconds

\* NextDelay: no jitter shortens what the upstream asked for.
LEMMA DelayIsLongEnough ==
  ASSUME NEW r \in 1..MaxSeconds, NEW n, NEW d \in NextDelay("rate_limited", n, r)
  PROVE  d \in Nat /\ d >= r
<1>1. Seconds(r) = r /\ r \in Nat /\ r > 0 /\ MaxSeconds \in Nat
  BY SecondsFit, WorkerAssumption
<1>2. Delay("rate_limited", n, r) = r
  BY <1>1 DEF Delay
<1>3. r \div JitterDivisor \in Int
  BY <1>1, WorkerAssumption
<1>4. \A j \in Jitter(r) : j \in Int
  BY <1>1, <1>3 DEF Jitter
<1>5. PICK j \in Jitter(r) : d = IF r > 0 /\ j < r THEN r ELSE j
  BY <1>1, <1>2 DEF NextDelay
<1> QED
  BY <1>1, <1>4, <1>5

LEMMA WaitInit == WorkerInit => WaitInv
BY RestAt DEF WorkerInit, CollectInit, WaitInv, Wishes, Wish, NoWish, Heeded

\* A tick brings a heeded wish no closer to its end than the timer to its.
LEMMA WaitTick ==
  ASSUME WaitInv, Tick
  PROVE  WaitInv'
<1>1. NoWish \in Wishes /\ ~ Heeded(NoWish)
  BY WorkerAssumption DEF NoWish, Wish, Wishes, Heeded
<1>2. CASE embargo.left > 1
  <2>1. /\ embargo' = [embargo EXCEPT !.left = @ - 1]
        /\ embargo' \in Wishes
        /\ embargo'.left = embargo.left - 1 /\ Heeded(embargo') => Heeded(embargo)
    BY <1>2 DEF Tick, WaitInv, Wishes, Heeded
  <2>2. embargo.left \in Nat
    BY DEF WaitInv, Wishes
  <2> QED
    BY <1>2, <2>1, <2>2 DEF Tick, Sleeping, WaitInv, collectVars
<1>3. CASE ~ (embargo.left > 1)
  BY <1>1, <1>3 DEF Tick, WaitInv, collectVars
<1> QED
  BY <1>2, <1>3

\* Only a refusal ends a collection with something to wait for, and that of a 429.
LEMMA EndsWell ==
  ASSUME Proceed, WaitInv
  PROVE  stage'.at = "ended" =>
           /\ stage'.retryAfter \in Nat
           /\ stage'.retryAfter > 0 => stage'.class = "rate_limited"
<1> DEFINE Well(s) == s.at = "ended" => /\ s.retryAfter \in Nat
                                        /\ s.retryAfter > 0 => s.class = "rate_limited"
<1>1. \A class, ids : Well(Ended(class, 0, ids)) /\ Well(Failed(class))
  BY DEF Ended, Failed
<1>2. \A i, token : Well(Request(i, token))
  BY DEF Request
<1>3. CASE TakeSecret
  BY <1>1, <1>2, <1>3 DEF TakeSecret, Goto
<1>4. CASE LookBefore
  BY <1>1, <1>4 DEF LookBefore, Goto
<1>5. CASE OpenFile
  BY <1>1, <1>5 DEF OpenFile, Goto
<1>6. CASE ReadFirst \/ ReadSecond
  BY <1>6 DEF ReadFirst, ReadSecond, Goto
<1>7. CASE LookAfter
  BY <1>1, <1>2, <1>7 DEF LookAfter, Goto
<1>8. CASE stage.at = "request" /\ stage' = [stage EXCEPT !.legacy = TRUE]
  <2>1. stage'.at = stage.at
    BY <1>8
  <2> QED
    BY <1>8, <2>1
<1>9. CASE FallBack
  BY <1>8, <1>9 DEF FallBack, Goto
<1>10. CASE Answer
  BY <1>1, <1>2, <1>10 DEF Answer, Goto
<1>11. CASE Misread
  BY <1>1, <1>8, <1>11 DEF Misread, Goto
<1>12. CASE Refuse
  <2>1. PICK r \in RetryAfters : /\ r # 0 => upstream = "rate_limited"
                                 /\ stage' = Ended(upstream, r, <<>>)
    BY <1>12 DEF Refuse, Goto
  <2>2. r \in Nat
    BY CollectAssumption
  <2> QED
    BY <2>1, <2>2 DEF Ended
<1> QED
  BY <1>3, <1>4, <1>5, <1>6, <1>7, <1>9, <1>10, <1>11, <1>12 DEF Proceed

LEMMA WaitNext == WaitInv /\ [WorkerNext]_workerVars => WaitInv'
<1> SUFFICES ASSUME WaitInv, [WorkerNext]_workerVars PROVE WaitInv'
  OBVIOUS
<1>1. CASE Tick
  BY <1>1, WaitTick
<1>2. CASE World
  <2>1. UNCHANGED stage
    BY <1>2 DEF World, Environment, Change, ChangeKeyring, Truncate, WriteFirst,
                WriteSecond, Rename, Logout
  <2> QED
    BY <1>2, <2>1 DEF World, WaitInv
<1>3. CASE Collect
  BY <1>3, EndsWell DEF Collect, WaitInv
<1>4. CASE BeginRun
  BY <1>4, RestAt DEF BeginRun, Begin, WaitInv, Wishes, Heeded
<1>5. CASE BeginRefresh
  BY <1>5, RestAt DEF BeginRefresh, Begin, WaitInv
<1>6. CASE EndRun
  <2>1. holder = "run" /\ holder' = "nobody" /\ ~ Heeded(embargo) /\ stage' = Idle
    BY <1>6 DEF EndRun, Release, WaitInv
  <2>2. PICK d \in NextDelay(stage.class, failures', stage.retryAfter) :
           wait' = IF d > 0 THEN d ELSE 0
    BY <1>6 DEF EndRun
  <2>3. stage.retryAfter \in Nat /\ MaxSeconds \in Nat
        /\ (stage.retryAfter > 0 => stage.class = "rate_limited")
    BY <1>6, WorkerAssumption DEF EndRun, WaitInv
  <2>4. CASE stage.retryAfter = 0
    BY <1>6, <2>1, <2>4, RestAt DEF EndRun, WaitInv
  <2>5. CASE stage.retryAfter > 0
    <3>1. embargo' = Wish("run", stage.retryAfter)
      BY <1>6, <2>5 DEF EndRun
    <3>2. /\ embargo' \in Wishes
          /\ embargo'.left = stage.retryAfter
          /\ embargo'.kept => stage.retryAfter <= MaxSeconds
      BY <2>3, <3>1 DEF Wish, Wishes
    <3>3. ASSUME stage.retryAfter <= MaxSeconds
          PROVE  wait' \in Nat /\ wait' >= stage.retryAfter
      <4>1. d \in Nat /\ d >= stage.retryAfter
        BY <2>2, <2>3, <2>5, <3>3, DelayIsLongEnough
      <4> QED
        BY <2>2, <2>3, <2>5, <4>1
    <3> QED
      BY <2>1, <3>2, <3>3, RestAt DEF WaitInv, Heeded
  <2> QED
    BY <2>3, <2>4, <2>5
<1>7. CASE EndRefresh
  <2>1. stage.retryAfter \in Nat /\ stage' = Idle /\ holder' = "nobody" /\ wait' = wait
    BY <1>7 DEF EndRefresh, Release, WaitInv
  <2>2. Wish("refresh", stage.retryAfter) \in Wishes
        /\ ~ Heeded(Wish("refresh", stage.retryAfter))
    BY <2>1 DEF Wish, Wishes, Heeded
  <2> QED
    BY <1>7, <2>1, <2>2, RestAt DEF EndRefresh, WaitInv
<1>8. CASE PublishRun \/ PublishRefresh \/ UNCHANGED workerVars
  BY <1>8 DEF PublishRun, PublishRefresh, workerVars, collectVars, WaitInv
<1> QED
  BY <1>1, <1>2, <1>3, <1>4, <1>5, <1>6, <1>7, <1>8 DEF WorkerNext

\* RetryAfterHolds: for any delays, any jitter and any number of refreshes in between,
\* the periodic worker leaves an upstream alone as long as it was itself asked to,
\* where a Duration holds that long; of what a Refresh is told, and of longer waits, it
\* promises nothing (policy.go NextDelay, scheduler.go runTask, Refresh).
THEOREM RetryAfterIsObeyed == WorkerSpec => []RetryAfterHolds
<1>1. WaitInv => RetryAfterHolds
  BY DEF WaitInv, RetryAfterHolds
<1> QED
  BY <1>1, WaitInit, WaitNext, PTL DEF WorkerSpec

-----------------------------------------------------------------------------
(* The batches. *)

\* What BatchIsSound asks of the metrics of one batch.
SoundFor(t, ids) ==
  /\ t \in MetricTypes => Range(ids) \subseteq StableMetricIDs(t)
  /\ \A p, q \in DOMAIN ids : ids[p] = ids[q] => p = q

LEMMA NothingIsSound == \A t : SoundFor(t, <<>>)
BY DEF SoundFor, Range

\* The metrics chosen from a list without repetition are of that list, each once.
LEMMA ChosenIs ==
  ASSUME NEW names, NEW given,
         \A i, j \in DOMAIN names : names[i] = names[j] => i = j
  PROVE  /\ Range(Chosen(names, given)) \subseteq Range(names)
         /\ \A p, q \in DOMAIN Chosen(names, given) :
              Chosen(names, given)[p] = Chosen(names, given)[q] => p = q
BY DEF Chosen, Range

LEMMA MiniMaxSound ==
  ASSUME NEW a \in MiniMaxAnswers
  PROVE  SoundFor("minimax_coding", MiniMaxParse(a).ids)
<1> DEFINE names == <<"5h", "weekly">>
<1>1. Range(names) \subseteq {"5h", "weekly"} /\ \A i, j \in DOMAIN names : names[i] = names[j] => i = j
  BY DEF Range
<1>2. StableMetricIDs("minimax_coding") = {"5h", "weekly"}
  BY DEF StableMetricIDs
<1>3. SoundFor("minimax_coding", <<"5h">>)
  BY <1>2 DEF SoundFor, Range
<1> HIDE DEF names
<1>4. \A given : SoundFor("minimax_coding", Chosen(names, given))
  BY <1>1, <1>2, ChosenIs DEF SoundFor
<1>5. \/ MiniMaxParse(a).ids \in {<<>>, <<"5h">>}
      \/ \E given : MiniMaxParse(a).ids = Chosen(names, given)
  BY DEF MiniMaxParse, Refused, Changed, Batch, names
<1> QED
  BY <1>3, <1>4, <1>5, NothingIsSound

LEMMA CodexSound ==
  ASSUME NEW a \in CodexAnswers
  PROVE  SoundFor("codex_usage", CodexParse(a).ids)
<1> DEFINE names == <<"5h", "weekly", "code_review">>
<1>1. /\ Range(names) \subseteq {"5h", "weekly", "code_review"}
      /\ \A i, j \in DOMAIN names : names[i] = names[j] => i = j
  BY DEF Range
<1>2. StableMetricIDs("codex_usage") = {"5h", "weekly", "code_review"}
  BY DEF StableMetricIDs
<1> HIDE DEF names
<1>3. \A given : SoundFor("codex_usage", Chosen(names, given))
  BY <1>1, <1>2, ChosenIs DEF SoundFor
<1>4. CodexParse(a).ids = <<>> \/ \E given : CodexParse(a).ids = Chosen(names, given)
  BY DEF CodexParse, Refused, Changed, Batch, names
<1> QED
  BY <1>3, <1>4, NothingIsSound

\* One metric for each of these, or none at all.
LEMMA AllGoodSound ==
  ASSUME NEW t, NEW values, NEW ids, SoundFor(t, ids)
  PROVE  SoundFor(t, AllGood(values, ids).ids)
BY NothingIsSound DEF AllGood, Batch, Changed, Refused

\* The rows of a window that no ratio and no row before has.
LEMMA KimiCodingSound ==
  ASSUME NEW a \in KimiCodingAnswers
  PROVE  SoundFor("kimi_coding", KimiCodingParse(a).ids)
<1> DEFINE R == {"5h", "weekly", "monthly-total", "monthly-code"}
           ratios == {i \in DOMAIN RatioWindows : a.ratios[RatioWindows[i]] # "absent"}
           legacy == LegacyRows(a)
           places == ratios \cup {4 + i : i \in legacy}
           ids == [place \in places |-> IF place <= 4 THEN RatioWindows[place]
                                                     ELSE a.rows[place - 4].window]
<1>1. /\ Len(RatioWindows) = 4 /\ DOMAIN RatioWindows = 1..4
      /\ \A i \in 1..4 : RatioWindows[i] \in R
      /\ \A i, j \in 1..4 : RatioWindows[i] = RatioWindows[j] => i = j
  BY DEF RatioWindows
<1>2. PICK n \in Nat : a.rows \in [1..n -> [window : LegacyWindows, value : {"bad", "good"}]]
  BY DEF KimiCodingAnswers, Rows
<1>3. ASSUME NEW i \in legacy
      PROVE  /\ i \in 1..n /\ a.rows[i].window \in {"5h", "weekly"}
             /\ a.ratios[a.rows[i].window] = "absent"
             /\ \A j \in 1..(i - 1) : a.rows[j].window # a.rows[i].window
  BY <1>2 DEF LegacyRows, LegacyWindows
<1>4. \A p \in places : \/ p \in ratios /\ ids[p] = RatioWindows[p]
                        \/ p - 4 \in legacy /\ p \in Nat /\ ids[p] = a.rows[p - 4].window
  <2> SUFFICES ASSUME NEW p \in places
               PROVE  \/ p \in ratios /\ ids[p] = RatioWindows[p]
                      \/ p - 4 \in legacy /\ p \in Nat /\ ids[p] = a.rows[p - 4].window
    OBVIOUS
  <2>1. CASE p \in ratios
    BY <1>1, <2>1
  <2>2. CASE p \notin ratios
    <3>1. PICK i \in legacy : p = 4 + i
      BY <2>2
    <3>2. i \in Nat /\ i >= 1 /\ p - 4 = i /\ ~ (p <= 4)
      BY <1>3, <3>1
    <3> QED
      BY <3>1, <3>2
  <2> QED
    BY <2>1, <2>2
<1> HIDE DEF ids, places, ratios, legacy
<1>5. \A p \in places : ids[p] \in R
  BY <1>1, <1>3, <1>4 DEF ratios
<1>6. ASSUME NEW p \in places, NEW q \in places, ids[p] = ids[q]
      PROVE  p = q
  <2>1. CASE p \in ratios /\ q \in ratios /\ ids[p] = RatioWindows[p] /\ ids[q] = RatioWindows[q]
    BY <1>1, <1>6, <2>1 DEF ratios
  <2>2. ASSUME NEW i \in ratios, NEW j \in legacy
        PROVE  RatioWindows[i] # a.rows[j].window
    BY <1>3, <2>2 DEF ratios
  <2>3. ASSUME NEW i \in legacy, NEW j \in legacy, a.rows[i].window = a.rows[j].window
        PROVE  i = j
    <3>1. i \in Nat /\ j \in Nat /\ i >= 1 /\ j >= 1
      BY <1>3
    <3>2. ~ (i < j)
      BY <1>3, <2>3, <3>1
    <3>3. ~ (j < i)
      BY <1>3, <2>3, <3>1
    <3> QED
      BY <3>1, <3>2, <3>3
  <2>4. CASE /\ p - 4 \in legacy /\ p \in Nat /\ ids[p] = a.rows[p - 4].window
             /\ q - 4 \in legacy /\ q \in Nat /\ ids[q] = a.rows[q - 4].window
    <3>1. p - 4 = q - 4
      BY <1>6, <2>3, <2>4
    <3> QED
      BY <2>4, <3>1
  <2> QED
    BY <1>4, <1>6, <2>1, <2>2, <2>4
<1>7. DOMAIN ids = places /\ Range(ids) \subseteq R
  BY <1>5 DEF ids, Range
<1>8. SoundFor("kimi_coding", ids)
  BY <1>6, <1>7 DEF SoundFor, StableMetricIDs
<1>9. KimiCodingParse(a).ids \in {<<>>, ids}
  BY <1>1 DEF KimiCodingParse, BatchOf, Batch, Changed, Refused, ids, places, ratios, legacy
<1> QED
  BY <1>8, <1>9, NothingIsSound

\* No currency comes twice.
LEMMA DeepSeekSound ==
  ASSUME NEW a \in DeepSeekAnswers
  PROVE  SoundFor("deepseek_api", DeepSeekParse(a).ids)
<1> DEFINE places == (DOMAIN a.infos) \X Balances
           ids == [place \in places |-> <<place[2], a.infos[place[1]].currency>>]
           Good == \A i \in DOMAIN a.infos :
                     /\ a.infos[i].currency # "other"
                     /\ \A j \in 1..(i - 1) : a.infos[j].currency # a.infos[i].currency
<1>1. PICK n \in Nat :
        a.infos \in [1..n -> [currency : {"cny", "usd", "other"}, value : {"bad", "good"}]]
  BY DEF DeepSeekAnswers, Rows
<1>2. DeepSeekParse(a).ids = <<>> \/ (Good /\ DeepSeekParse(a).ids = ids)
  BY DEF DeepSeekParse, Batch, Changed, Refused
<1>3. ASSUME Good, NEW i \in 1..n, NEW j \in 1..n, a.infos[i].currency = a.infos[j].currency
      PROVE  i = j
  <2>1. ~ (i < j)
    BY <1>1, <1>3
  <2>2. ~ (j < i)
    BY <1>1, <1>3
  <2> QED
    BY <2>1, <2>2
<1>4. ASSUME Good
      PROVE  SoundFor("deepseek_api", ids)
  <2>1. \A p \in places : /\ p[1] \in 1..n /\ p[2] \in Balances /\ p = <<p[1], p[2]>>
                          /\ ids[p] = <<p[2], a.infos[p[1]].currency>>
    BY <1>1
  <2>2. \A i \in 1..n : a.infos[i].currency \in {"cny", "usd"}
    BY <1>1, <1>4
  <2> HIDE DEF ids, places
  <2>3. \A p \in places : ids[p] \in Balances \X {"cny", "usd"}
    BY <2>1, <2>2
  <2>4. ASSUME NEW p \in places, NEW q \in places, ids[p] = ids[q]
        PROVE  p = q
    <3>1. p[2] = q[2] /\ a.infos[p[1]].currency = a.infos[q[1]].currency
      BY <2>1, <2>4
    <3>2. p[1] = q[1]
      BY <1>3, <1>4, <2>1, <3>1
    <3> QED
      BY <2>1, <3>1, <3>2
  <2>5. DOMAIN ids = places /\ Range(ids) \subseteq Balances \X {"cny", "usd"}
    BY <2>3 DEF ids, Range
  <2> QED
    BY <2>4, <2>5 DEF SoundFor, StableMetricIDs
<1> QED
  BY <1>2, <1>4, NothingIsSound

\* What the other types report of an answer is fixed.
LEMMA FixedSound ==
  /\ \A a \in KimiAPIAnswers : SoundFor("kimi_api", KimiAPIParse(a).ids)
  /\ \A a \in GrokAnswers : SoundFor("grok_usage", GrokParse(a).ids)
  /\ \A a \in OpenCodeAnswers : SoundFor("opencode_go", OpenCodeParse(a).ids)
<1>1. SoundFor("kimi_api", <<"available", "voucher", "cash">>)
  BY DEF SoundFor, StableMetricIDs, Range
<1>2. SoundFor("grok_usage", <<"weekly">>)
  BY DEF SoundFor, StableMetricIDs, Range
<1>3. SoundFor("opencode_go", <<"5h", "weekly", "monthly">>)
  BY DEF SoundFor, StableMetricIDs, Range
<1>4. ASSUME NEW a \in KimiAPIAnswers
      PROVE  SoundFor("kimi_api", KimiAPIParse(a).ids)
  BY <1>1, AllGoodSound, NothingIsSound DEF KimiAPIParse, Changed, Refused
<1>5. ASSUME NEW a \in GrokAnswers
      PROVE  SoundFor("grok_usage", GrokParse(a).ids)
  BY <1>2, NothingIsSound DEF GrokParse, Batch, Changed, Refused
<1>6. ASSUME NEW a \in OpenCodeAnswers
      PROVE  SoundFor("opencode_go", OpenCodeParse(a).ids)
  BY <1>3, AllGoodSound DEF OpenCodeParse
<1> QED
  BY <1>4, <1>5, <1>6

\* A report names an entity once.
LEMMA ReportSound ==
  ASSUME NEW t \in ReportTypes, NEW a
  PROVE  /\ SoundFor(t, PrometheusParse(a).ids) /\ SoundFor(t, GrafanaParse(a).ids)
         /\ SoundFor(t, PortainerParse(a).ids) /\ SoundFor(t, MockParse(a).ids)
<1>1. t \notin MetricTypes
  BY DEF ReportTypes, MetricTypes
<1>2. SoundFor(t, <<"service">>)
  BY <1>1 DEF SoundFor
<1>3. \A nodes : SoundFor(t, [entity \in nodes \cup {"service"} |-> entity])
  BY <1>1 DEF SoundFor
<1>4. \/ PrometheusParse(a).ids = <<>>
      \/ \E nodes : PrometheusParse(a).ids = [entity \in nodes \cup {"service"} |-> entity]
  BY DEF PrometheusParse, Batch, Changed, OverLimit, Refused
<1>5. GrafanaParse(a).ids \in {<<>>, <<"service">>}
  BY DEF GrafanaParse, Batch, Changed, OverLimit, Refused
<1>6. PortainerParse(a).ids \in {<<>>, <<"service">>}
  BY DEF PortainerParse, Batch, Changed, OverLimit, Refused
<1>7. MockParse(a).ids \in {<<>>, <<"service">>}
  BY DEF MockParse, Batch, Changed, OverLimit, Refused
<1> QED
  BY <1>2, <1>3, <1>4, <1>5, <1>6, <1>7, NothingIsSound

LEMMA ParseSound ==
  ASSUME NEW t \in AllTypes, NEW a \in AnswersTo(t)
  PROVE  SoundFor(t, Parse(t, a).ids)
<1>1. CASE t = "minimax_coding"
  BY <1>1, MiniMaxSound DEF AnswersTo, Parse
<1>2. CASE t = "kimi_coding"
  BY <1>2, KimiCodingSound DEF AnswersTo, Parse
<1>3. CASE t \in {"kimi_api", "grok_usage", "opencode_go"}
  BY <1>3, FixedSound DEF AnswersTo, Parse
<1>4. CASE t = "deepseek_api"
  BY <1>4, DeepSeekSound DEF AnswersTo, Parse
<1>5. CASE t = "codex_usage"
  BY <1>5, CodexSound DEF AnswersTo, Parse
<1>6. CASE t \in ReportTypes
  <2>1. Parse(t, a) \in {PrometheusParse(a), GrafanaParse(a), PortainerParse(a), MockParse(a)}
    BY <1>6 DEF Parse, ReportTypes
  <2> QED
    BY <1>6, <2>1, ReportSound
<1> QED
  BY <1>1, <1>2, <1>3, <1>4, <1>5, <1>6 DEF AllTypes, MetricTypes, ReportTypes

BatchInv == type \in Types /\ BatchIsSound

\* A collection ends with what Parse made of an answer, or with nothing.
LEMMA BatchEnds ==
  ASSUME Proceed, BatchInv
  PROVE  stage'.at = "ended" => SoundFor(type, stage'.ids)
<1> DEFINE Well(s) == s.at = "ended" => SoundFor(type, s.ids)
<1>1. \A class, r : Well(Ended(class, r, <<>>)) /\ Well(Failed(class))
  BY NothingIsSound DEF Ended, Failed
<1>2. \A i, token : Well(Request(i, token))
  BY DEF Request
<1>3. CASE TakeSecret
  BY <1>1, <1>2, <1>3 DEF TakeSecret, Goto
<1>4. CASE LookBefore
  BY <1>1, <1>4 DEF LookBefore, Goto
<1>5. CASE OpenFile
  BY <1>1, <1>5 DEF OpenFile, Goto
<1>6. CASE ReadFirst \/ ReadSecond
  BY <1>6 DEF ReadFirst, ReadSecond, Goto
<1>7. CASE LookAfter
  BY <1>1, <1>2, <1>7 DEF LookAfter, Goto
<1>8. CASE stage.at = "request" /\ stage' = [stage EXCEPT !.legacy = TRUE]
  <2>1. stage'.at = stage.at
    BY <1>8
  <2> QED
    BY <1>8, <2>1
<1>9. CASE FallBack
  BY <1>8, <1>9 DEF FallBack, Goto
<1>10. CASE Answer
  <2>1. CASE stage' = Request(stage.i + 1, stage.token)
    BY <1>2, <2>1
  <2>2. ASSUME NEW r \in Readings[type], stage' = Ended("none", 0, r.ids)
        PROVE  Well(stage')
    <3>1. type \in Types /\ type \in AllTypes
      BY CollectAssumption DEF BatchInv
    <3>2. PICK a \in AnswersTo(type) : r = Parse(type, a)
      BY <3>1 DEF Readings
    <3>3. SoundFor(type, r.ids)
      BY <3>1, <3>2, ParseSound
    <3> QED
      BY <2>2, <3>3 DEF Ended
  <2> QED
    BY <1>10, <2>1, <2>2 DEF Answer, Goto
<1>11. CASE Misread
  BY <1>1, <1>8, <1>11 DEF Misread, Goto
<1>12. CASE Refuse
  BY <1>1, <1>12 DEF Refuse, Goto
<1> QED
  BY <1>3, <1>4, <1>5, <1>6, <1>7, <1>9, <1>10, <1>11, <1>12 DEF Proceed

LEMMA BatchNext == BatchInv /\ [WorkerNext]_workerVars => BatchInv'
<1> SUFFICES ASSUME BatchInv, [WorkerNext]_workerVars PROVE BatchInv'
  OBVIOUS
<1> DEFINE Well(s) == s.at = "ended" => SoundFor(type, s.ids)
<1>1. BatchIsSound <=> Well(stage)
  BY DEF BatchIsSound, SoundFor
<1>2. type' = type => (BatchIsSound' <=> Well(stage)')
  BY DEF BatchIsSound, SoundFor
<1>3. CASE World
  <2>1. type' = type /\ stage' = stage
    BY <1>3 DEF World, Environment, Change, ChangeKeyring, Truncate, WriteFirst, WriteSecond,
                Rename, Logout, cliVars
  <2> QED
    BY <1>1, <1>2, <2>1 DEF BatchInv
<1>4. CASE Collect
  <2>1. type' = type
    BY <1>4 DEF Collect, Proceed, TakeSecret, LookBefore, OpenFile, ReadFirst, ReadSecond,
                LookAfter, FallBack, Answer, Misread, Refuse, Goto, worldVars
  <2>2. stage'.at = "ended" => SoundFor(type, stage'.ids)
    BY <1>4, BatchEnds DEF Collect
  <2> QED
    BY <1>2, <2>1, <2>2 DEF BatchInv
<1>5. CASE BeginRun \/ BeginRefresh \/ EndRun \/ EndRefresh
  <2>1. type' = type /\ stage'.at # "ended"
    BY <1>5, RestAt DEF BeginRun, BeginRefresh, Begin, EndRun, EndRefresh, Release, worldVars
  <2> QED
    BY <1>2, <2>1 DEF BatchInv
<1>6. CASE UNCHANGED collectVars
  BY <1>1, <1>2, <1>6 DEF BatchInv, collectVars
<1> QED
  BY <1>3, <1>4, <1>5, <1>6
  DEF WorkerNext, Tick, PublishRun, PublishRefresh, workerVars, collectVars

\* BatchIsSound: whatever rows, windows and currencies an answer repeats, and however
\* many, no batch has a metric twice or one that its type does not declare
\* (kimicoding.go parse, deepseek.go Collect, TypeMeta.StableMetricIDs).
THEOREM BatchesAreSound == WorkerSpec => []BatchIsSound
<1>1. WorkerInit => BatchInv
  BY RestAt DEF WorkerInit, CollectInit, BatchInv, BatchIsSound
<1>2. BatchInv => BatchIsSound
  BY DEF BatchInv
<1> QED
  BY <1>1, <1>2, BatchNext, PTL DEF WorkerSpec

=============================================================================
