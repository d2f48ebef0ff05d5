-------------------------- MODULE ProviderCollect ---------------------------
(***************************************************************************)
(* One connector's Collect (src/internal/connector/*/*.go) in an           *)
(* environment that changes under it: it takes its credential, from the    *)
(* keyring or from the auth file of an official CLI, sends one request     *)
(* after the other and makes a batch of metrics, or refuses.               *)
(*                                                                         *)
(* The CLI owns its auth file and rewrites it whenever it likes, in place  *)
(* or by renaming a new file over it, while readAuthFile looks at the      *)
(* path, opens it, reads it in parts and looks again.  A login writes both *)
(* parts of its file with its own number; the parts of different logins    *)
(* read together make a token nobody ever issued.                          *)
(*                                                                         *)
(* Abstractions.                                                           *)
(*  - The type, its settings and the API generation of its upstream do not *)
(*    change: ValidateAll has checked the settings before the first        *)
(*    collection, and a new configuration is a new process.                *)
(*  - Every write of the CLI gives its file a modification time of its own,*)
(*    and a renamed file is another inode.                                 *)
(*  - A request fails as its upstream is when it is answered.  What all    *)
(*    the answers of a collection hold is chosen with the last; an answer  *)
(*    that is refused may be any of them.                                  *)
(*  - A Prometheus connector without a secret_ref is one whose keyring     *)
(*    always answers.                                                      *)
(*                                                                         *)
(* A definition X_flaw is X with a plausible mistake in it.  No action     *)
(* uses it: it serves to see that the properties notice the mistake.       *)
(***************************************************************************)
EXTENDS ProviderAnswers

CONSTANTS
  Types,       \* the connector types of the instance
  Queries,     \* Prometheus: len(queryOrder), 7 in the code
  Outages,     \* what may go wrong: "odd" answers, or a class of GetJSON's errors
  Online,      \* Portainer: the environments that are online
  RetryAfters, \* what a 429 may ask for in seconds, 0 when it asks nothing
  MaxLogins    \* bound: logins of the CLI

FileTypes   == {"codex_usage", "grok_usage"}
AllTypes    == MetricTypes \cup ReportTypes

ASSUME CollectAssumption ==
  /\ Types \subseteq AllTypes
  /\ Queries \in Nat /\ Online \in Nat /\ MaxLogins \in Nat
  /\ RetryAfters \subseteq Nat /\ 0 \in RetryAfters

\* The requests of a collection; one with a fallback has a second URL.
PrometheusPlan == [i \in 1..(Queries + 1) |-> "plain"]
GrafanaPlan    == <<"plain", "plain", "fallback">>
PortainerPlan  == <<"fallback">> \o [i \in 1..(Online + 2) |-> "plain"]

Plan(t) ==
  CASE t \in {"minimax_coding", "kimi_coding"} -> <<"fallback">>
    [] t = "prometheus" -> PrometheusPlan
    [] t = "grafana"    -> GrafanaPlan
    [] t = "portainer"  -> PortainerPlan
    [] OTHER            -> <<"plain">>

\* What every type makes of all the answers there are.
Readings == [t \in Types |-> {Parse(t, a) : a \in AnswersTo(t)}]

\* What may go wrong with an upstream; a fixture file is only read.
Troubles(t) ==
  Outages \cap
    IF t = "mock" THEN {"odd"}
    ELSE {"odd", "auth", "rate_limited", "timeout", "network", "upstream"}

Logins == 0..MaxLogins
Absent == 0                     \* no login: a missing part, no file at the path
Blank  == [stamp |-> 0, parts |-> <<Absent, Absent>>]

VARIABLES
  type,      \* the connector's type
  modern,    \* its upstream serves the URLs that have a fallback
  upstream,  \* "good", or its trouble
  keyring,   \* the keyring holds the secret and can be read
  inodes,    \* the CLI's files by inode: modification stamp and two parts
  path,      \* the inode at auth_file
  logins,    \* the logins so far
  stage      \* where the collection is

worldVars   == <<type, modern, upstream, keyring, inodes, path, logins>>
cliVars     == <<inodes, path, logins>>
collectVars == <<type, modern, upstream, keyring, inodes, path, logins, stage>>

Idle     == [at |-> "idle"]
Stage(s) == [at |-> s]
NoToken  == <<Absent, Absent>>

Ended(class, retryAfter, ids) ==
  [at |-> "ended", class |-> class, retryAfter |-> retryAfter, ids |-> ids]

Failed(class) == Ended(class, 0, <<>>)

Request(i, token) == [at |-> "request", i |-> i, legacy |-> FALSE, token |-> token]

CollectInit ==
  /\ type \in Types
  /\ modern \in BOOLEAN
  /\ "fallback" \notin ToSet(Plan(type)) => modern
  /\ upstream \in {"good"} \cup Troubles(type)
  /\ keyring \in BOOLEAN
  /\ type \in FileTypes \cup {"mock"} => keyring    \* they have no use for it
  /\ inodes = [i \in Logins |-> Blank]
  /\ path = Absent
  /\ logins = 0
  /\ stage = Idle

Whole(file) == file.parts[2] # Absent

-----------------------------------------------------------------------------
(* The environment. *)

Change ==
  /\ upstream' \in {"good"} \cup Troubles(type)
  /\ upstream' # upstream
  /\ UNCHANGED <<type, modern, keyring, cliVars, stage>>

\* The keyring is locked or unlocked, the secret deleted or put back.
ChangeKeyring ==
  /\ type \notin FileTypes \cup {"mock"}
  /\ keyring' = ~ keyring
  /\ UNCHANGED <<type, modern, upstream, cliVars, stage>>

\* A file that loses its name is gone, unless it is open.
Unlinked ==
  IF path = Absent \/ (stage.at \in {"first", "second", "after"} /\ stage.inode = path)
    THEN inodes ELSE [inodes EXCEPT ![path] = Blank]

Written(parts) == [stamp |-> inodes[path].stamp + 1, parts |-> parts]

\* The CLI logs in: it truncates its file and writes it again, ...
Truncate ==
  /\ type \in FileTypes
  /\ path # Absent /\ Whole(inodes[path]) /\ logins < MaxLogins
  /\ logins' = logins + 1
  /\ inodes' = [inodes EXCEPT ![path] = Written(<<Absent, Absent>>)]
  /\ UNCHANGED <<type, modern, upstream, keyring, path, stage>>

WriteFirst ==
  /\ path # Absent /\ inodes[path].parts[1] = Absent
  /\ inodes' = [inodes EXCEPT ![path] = Written(<<logins, Absent>>)]
  /\ UNCHANGED <<type, modern, upstream, keyring, path, logins, stage>>

WriteSecond ==
  /\ path # Absent /\ inodes[path].parts[1] # Absent /\ ~ Whole(inodes[path])
  /\ inodes' = [inodes EXCEPT ![path] = Written(<<logins, logins>>)]
  /\ UNCHANGED <<type, modern, upstream, keyring, path, logins, stage>>

\* ... or it renames a new file over it.
Rename ==
  /\ type \in FileTypes
  /\ logins < MaxLogins
  /\ path # Absent => Whole(inodes[path])
  /\ logins' = logins + 1
  /\ path' = logins'
  /\ inodes' = [Unlinked EXCEPT ![logins'] = [stamp |-> 0, parts |-> <<logins', logins'>>]]
  /\ UNCHANGED <<type, modern, upstream, keyring, stage>>

Logout ==
  /\ path # Absent /\ Whole(inodes[path])
  /\ path' = Absent
  /\ inodes' = Unlinked
  /\ UNCHANGED <<type, modern, upstream, keyring, logins, stage>>

-----------------------------------------------------------------------------
(* The collection. *)

Goto(s) == stage' = s /\ UNCHANGED worldVars

\* providerutil.Secret; the fixture needs none.
TakeSecret ==
  /\ stage = Stage("credential")
  /\ type \notin FileTypes
  /\ Goto(IF keyring THEN Request(1, NoToken) ELSE Failed("auth"))

\* readAuthFile: os.Lstat, ...
LookBefore ==
  /\ stage = Stage("credential")
  /\ type \in FileTypes
  /\ Goto(IF path = Absent THEN Failed("auth") ELSE [at |-> "open", before |-> path])

\* ... os.Open and f.Stat, ...
OpenFile ==
  /\ stage.at = "open"
  /\ Goto(IF path # stage.before
            THEN Failed("auth")
            ELSE [at |-> "first", inode |-> path, stamp |-> inodes[path].stamp])

\* ... io.ReadAll, which reads on from the inode it opened, ...
ReadFirst ==
  /\ stage.at = "first"
  /\ Goto([at |-> "second", inode |-> stage.inode, stamp |-> stage.stamp,
           read |-> inodes[stage.inode].parts[1]])

ReadSecond ==
  /\ stage.at = "second"
  /\ Goto([at |-> "after", inode |-> stage.inode, stamp |-> stage.stamp,
           token |-> <<stage.read, inodes[stage.inode].parts[2]>>])

LookAfter_unchecked ==
  /\ stage.at = "after"
  /\ Goto(IF Absent \in {stage.token[1], stage.token[2]}
            THEN Failed("auth") ELSE Request(1, stage.token))

\* ... and os.Lstat again, before anything read is believed.
LookAfter ==
  /\ stage.at = "after"
  /\ Goto(IF \/ path # stage.inode \/ inodes[stage.inode].stamp # stage.stamp
             \/ Absent \in {stage.token[1], stage.token[2]}
            THEN Failed("auth") ELSE Request(1, stage.token))

IsLast == stage.i = Len(Plan(type))

\* The URL is not served: 404, and the connector tries the older one once.
FallBack ==
  /\ stage.at = "request" /\ ~ stage.legacy
  /\ Plan(type)[stage.i] = "fallback"
  /\ ~ modern /\ upstream = "good"
  /\ Goto([stage EXCEPT !.legacy = TRUE])

Served == modern \/ stage.legacy \/ Plan(type)[stage.i] = "plain"

\* An answer in order: on to the next request, or the batch or report.
Answer ==
  /\ stage.at = "request" /\ upstream = "good" /\ Served
  /\ \/ /\ ~ IsLast
        /\ Goto(Request(stage.i + 1, stage.token))
     \/ /\ IsLast
        /\ \E r \in Readings[type] : r.class = "none" /\ Goto(Ended("none", 0, r.ids))

\* An answer the parser refuses: MiniMax tries the older URL when the fields are
\* not those it knows.
Misread ==
  /\ stage.at = "request" /\ upstream = "odd"
  /\ \E r \in Readings[type] :
       /\ r.class # "none"
       /\ IF type = "minimax_coding" /\ r.class = "schema_changed" /\ ~ stage.legacy
            THEN Goto([stage EXCEPT !.legacy = TRUE])
            ELSE Goto(Failed(r.class))

\* GetJSON fails; only a 429 says when to come back (classifyHTTPStatus).
Refuse ==
  /\ stage.at = "request" /\ upstream \notin {"good", "odd"}
  /\ \E r \in RetryAfters :
       /\ r # 0 => upstream = "rate_limited"
       /\ Goto(Ended(upstream, r, <<>>))

-----------------------------------------------------------------------------
Environment == \/ Change \/ ChangeKeyring
               \/ Truncate \/ WriteFirst \/ WriteSecond \/ Rename \/ Logout

Proceed == \/ TakeSecret
           \/ LookBefore \/ OpenFile \/ ReadFirst \/ ReadSecond \/ LookAfter
           \/ FallBack \/ Answer \/ Misread \/ Refuse

-----------------------------------------------------------------------------
(* Properties. *)

\* The token a request carries was written by one login, whatever the CLI did to
\* its file meanwhile (readAuthFile, readStableAuth).
TokenIsWhole ==
  stage.at = "request" /\ type \in FileTypes =>
    stage.token[1] = stage.token[2] /\ stage.token[1] \in 1..logins

\* A batch has no metric twice, and none that is not declared: the check that no
\* two providers deliver the same metric goes by the declarations
\* (TypeMeta.StableMetricIDs, Draft.checkShadows).
BatchIsSound ==
  stage.at = "ended" =>
    /\ type \in MetricTypes => Range(stage.ids) \subseteq StableMetricIDs(type)
    /\ \A i, j \in DOMAIN stage.ids : stage.ids[i] = stage.ids[j] => i = j

=============================================================================
