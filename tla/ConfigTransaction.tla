------------------------- MODULE ConfigTransaction --------------------------
(***************************************************************************)
(* Changing the configuration of the daemon: drafts, their candidate       *)
(* secrets, and the Apply that commits both to the configuration file and  *)
(* the secret store (src/internal/configtx), as the web administration and *)
(* the provider commands use them (src/internal/webadmin/api.go,           *)
(* src/cmd/homepi-node/provider.go).                                       *)
(*                                                                         *)
(* Each process has a Service, which runs one transaction at a time; file  *)
(* and store are shared by all.  Every write to them is a step: it may     *)
(* fail, and the process may die before the next.                          *)
(*                                                                         *)
(* Abstractions.                                                           *)
(*  - An entry is the version of its secret's reference and whether it is  *)
(*    enabled; on the other fields only validation depends.  A reference   *)
(*    is a provider and a version, 0 for a name without one: an edit may   *)
(*    name any version, but not a reference of another provider.           *)
(*  - The revision of a file is its content.                               *)
(*  - Edits that are refused change nothing, so they are left out, and so  *)
(*    is an Apply refused by validation.  Every provider needs a reference *)
(*    for its secret, and none needs a secret behind it.                   *)
(*  - A rename is atomic and durable.  A save reports no failure after it; *)
(*    a restoration may.                                                   *)
(*  - Daemon and probe are external: a restart or health check succeeds or *)
(*    fails.  It fails, too, when the browser has gone and its request is  *)
(*    cancelled.                                                           *)
(*                                                                         *)
(* A definition X_flaw is X with a plausible mistake in it.  No action     *)
(* uses it: it serves to see that the properties notice the mistake.       *)
(***************************************************************************)
EXTENDS Naturals, FiniteSets

CONSTANTS
  Services,     \* the processes that change the configuration
  WebServices,  \* those of them that serve the web administration
  Providers,
  Values,       \* secrets an operator may enter
  MaxVersion,   \* bound of the model: versions of a reference
  Names,        \* bound of the model: versions an operator names, in edits or at first
  MaxDrafts,    \* bound of the model: drafts opened
  MaxEdits      \* bound of the model: edits of one draft

NoSecret == "no secret"

ASSUME ConfigAssumption ==
  /\ IsFiniteSet(Services) /\ WebServices \subseteq Services
  /\ IsFiniteSet(Providers)
  /\ NoSecret \notin Values
  /\ Names \in (SUBSET (0 .. MaxVersion)) \ {{}}
  /\ MaxVersion \in Nat /\ MaxDrafts \in Nat /\ MaxEdits \in Nat \ {0}

Refs    == Providers \X (0 .. MaxVersion)
Secrets == [Refs -> Values \cup {NoSecret}]
Entries == [state : {"absent", "enabled", "disabled"}, version : 0 .. MaxVersion]
Configs == [Providers -> Entries]
Files   == [exists : BOOLEAN, content : Configs]

NoSecrets == [ref \in Refs |-> NoSecret]
Absent    == [state |-> "absent", version |-> 0]
Empty     == [p \in Providers |-> Absent]
NoFile    == [exists |-> FALSE, content |-> Empty]

\* The references a configuration uses, and those of a set of secrets that hold one.
RefsOf(config) == {<<p, config[p].version>> : p \in {q \in Providers : config[q].state # "absent"}}
Held(secrets)  == {ref \in Refs : secrets[ref] # NoSecret}

-----------------------------------------------------------------------------

VARIABLES
  disk,       \* the configuration file
  store,      \* the secret store: the secret under every reference
  draft,      \* per service: its draft
  work,       \* per service: the Apply under way
  opens,      \* bound of the model: drafts opened so far
  overlapped, \* history: two services were at work on the file at once
  raced,      \* history: services during whose Apply another one wrote the file
  bare,       \* history: references saved without a secret
  damaged     \* history: the previous configuration could not be restored

configVars == <<disk, store, draft, work, opens, overlapped, raced, bare, damaged>>

Drafts ==
  [phase : {"none", "loading", "open"}, base : Configs, pending : Configs, overlay : Secrets,
   tested : [Providers -> SUBSET (Entries \X (Values \cup {NoSecret}))],
   revision : Files, edits : 0 .. MaxEdits]

NoDraft ==
  [phase |-> "none", base |-> Empty, pending |-> Empty, overlay |-> NoSecrets,
   tested |-> [p \in Providers |-> {}], revision |-> NoFile, edits |-> 0]

Steps == {"idle", "checked", "storing", "restarting", "verifying", "pruning",
          "restoring", "recovering", "discarding"}

Outcomes == {"none", "conflict", "ok", "warning", "unread", "rolled_back", "manual"}

\* held is history: the secrets stored when the Apply began.
Works ==
  [step : Steps, previous : Files, todo : SUBSET Refs, committed : SUBSET Refs,
   broken : BOOLEAN, keep : SUBSET Refs, outcome : Outcomes, held : Secrets]

NoWork ==
  [step |-> "idle", previous |-> NoFile, todo |-> {}, committed |-> {},
   broken |-> FALSE, keep |-> {}, outcome |-> "none", held |-> NoSecrets]

ConfigInit ==
  /\ \E v \in Names, value \in Values, providers \in SUBSET Providers,
        exists \in BOOLEAN :
       LET content == [p \in Providers |->
             IF p \in providers THEN [state |-> "enabled", version |-> v] ELSE Absent]
       IN  /\ providers # {} => exists
           /\ disk = [exists |-> exists, content |-> content]
           /\ store = [ref \in Refs |-> IF ref \in RefsOf(content) THEN value ELSE NoSecret]
  /\ draft = [s \in Services |-> NoDraft]
  /\ work = [s \in Services |-> NoWork]
  /\ opens = 0
  /\ overlapped = FALSE
  /\ raced = {}
  /\ bare = {}
  /\ damaged = FALSE

-----------------------------------------------------------------------------
(* Drafts.  The web administration keeps its draft from one request to the *)
(* next; a command opens one, makes one edit and applies it.               *)

Web(s)  == s \in WebServices
Idle(s) == work[s].step = "idle"

\* A service at work on the file: between its two reads of it, or in an Apply.
BusyOn(s) == draft[s].phase = "loading" \/ ~Idle(s)

\* OpenDraft reads the file twice: for the content, then for its digest.
LoadBase(s) ==
  /\ draft[s].phase = "none" /\ Idle(s) /\ opens < MaxDrafts
  /\ opens' = opens + 1
  /\ draft' = [draft EXCEPT ![s] = [NoDraft EXCEPT !.phase = "loading",
                                      !.base = disk.content, !.pending = disk.content]]
  /\ UNCHANGED <<disk, store, work, damaged>>

ReadRevision(s) ==
  /\ draft[s].phase = "loading"
  /\ draft' = [draft EXCEPT ![s].phase = "open", ![s].revision = disk]
  /\ UNCHANGED <<disk, store, work, opens, damaged>>

Edit(s, new) ==
  /\ draft[s].phase = "open" /\ Idle(s)
  /\ draft[s].edits < (IF Web(s) THEN MaxEdits ELSE 1)
  /\ draft' = [draft EXCEPT ![s] = [new EXCEPT !.edits = @ + 1]]
  /\ UNCHANGED <<disk, store, work, opens, damaged>>

\* nextVersionedRef on versions: the name without one is the first.
NextVersion(v) == IF v = 0 THEN 2 ELSE v + 1

\* The version of the reference under which EditProvider stages a candidate, for
\* a provider whose reference has version v, by the edit or from before.
CandidateVersion(d, p, v, rotate) ==
  LET isNew == d.pending[p].state = "absent"
  IN  IF d.base[p].state # "absent"
      THEN IF v = d.base[p].version \/ d.overlay[<<p, v>>] = NoSecret THEN NextVersion(v) ELSE v
      ELSE IF isNew THEN IF v = 0 THEN 1 ELSE v
      ELSE IF rotate THEN NextVersion(v) ELSE v

\* The draft with the reference of version v for the provider, added if need be.
Named_keepsTest(d, p, v) ==
  [d EXCEPT !.pending[p] = [state |-> IF @.state = "absent" THEN "enabled" ELSE @.state,
                            version |-> v]]

Named(d, p, v) ==
  [d EXCEPT !.pending[p] = [state |-> IF @.state = "absent" THEN "enabled" ELSE @.state,
                            version |-> v],
            !.tested[p] = {}]

\* The draft with a candidate besides, under the reference of version v.
Staged(d, p, v, value) == [Named(d, p, v) EXCEPT !.overlay[<<p, v>>] = value]

\* What an edit makes the reference of a provider: it names one, or leaves it alone,
\* which for a new provider is the name without a version.
Versions(d, p) == Names \cup {d.pending[p].version}

\* EditProvider, by a command only of a new provider, with a candidate secret,
Stage(s) ==
  \E p \in Providers, value \in Values, rotate \in BOOLEAN : \E named \in Versions(draft[s], p) :
    LET v == CandidateVersion(draft[s], p, named, rotate)
    IN  /\ Web(s) \/ draft[s].pending[p].state = "absent"
        /\ v <= MaxVersion
        /\ Edit(s, Staged(draft[s], p, v, value))

\* or without one, though no secret need be under the reference.
Name(s) ==
  \E p \in Providers : \E v \in Versions(draft[s], p) :
    /\ Web(s) \/ draft[s].pending[p].state = "absent"
    /\ Edit(s, Named(draft[s], p, v))

\* EditProvider of the Enabled field.
Toggle(s) ==
  \E p \in Providers :
    /\ draft[s].pending[p].state # "absent"
    /\ Edit(s, [draft[s] EXCEPT
         !.pending[p].state = IF @ = "enabled" THEN "disabled" ELSE "enabled",
         !.tested[p] = {}])

\* DeleteProvider.
Remove(s) ==
  \E p \in Providers :
    /\ draft[s].pending[p].state # "absent"
    /\ Edit(s, [draft[s] EXCEPT
         !.pending[p] = Absent,
         !.overlay = [ref \in Refs |-> IF ref[1] = p THEN NoSecret ELSE @[ref]],
         !.tested[p] = {}])

\* What a test vouches for: the entry with its candidate secret.
Fingerprint(d, p) == <<d.pending[p], d.overlay[<<p, d.pending[p].version>>]>>

\* A test reads the candidate, or else the stored secret.
Test(s) ==
  \E p \in Providers, passed \in BOOLEAN :
    LET d   == draft[s]
        ref == <<p, d.pending[p].version>>
    IN  /\ Web(s) /\ d.phase = "open" /\ Idle(s) /\ d.pending[p].state # "absent"
        /\ d.overlay[ref] # NoSecret \/ store[ref] # NoSecret
        /\ draft' = [draft EXCEPT ![s].tested[p] = IF passed THEN {Fingerprint(d, p)} ELSE {}]
        /\ UNCHANGED <<disk, store, work, opens, damaged>>

\* validateRequiredTests.
NeedsTest_newOnly(d, p) ==
  /\ d.pending[p].state = "enabled"
  /\ d.base[p].state = "absent"

NeedsTest(d, p) ==
  /\ d.pending[p].state = "enabled"
  /\ d.base[p].state = "absent" \/ d.base[p].version # d.pending[p].version

Tested(d) == \A p \in Providers : NeedsTest(d, p) => Fingerprint(d, p) \in d.tested[p]

-----------------------------------------------------------------------------
(* Apply, up to the point of no return.                                    *)

Ended(s, outcome) == [work EXCEPT ![s] = [NoWork EXCEPT !.outcome = outcome]]

Stale_never(d) == FALSE
Stale(d)       == d.revision # disk

StartApply(s) ==
  /\ draft[s].phase = "open" /\ Idle(s)
  /\ IF Stale(draft[s])
     THEN /\ draft' = [draft EXCEPT ![s] = NoDraft]
          /\ work' = Ended(s, "conflict")
     ELSE /\ Web(s) => Tested(draft[s])
          /\ work' = [work EXCEPT ![s] = [NoWork EXCEPT !.step = "checked"]]
          /\ UNCHANGED draft
  /\ UNCHANGED <<disk, store, opens, damaged>>

ReadPrevious(s) ==
  /\ work[s].step = "checked"
  /\ work' = [work EXCEPT ![s].step = "storing", ![s].previous = disk,
                          ![s].todo = Held(draft[s].overlay), ![s].held = store]
  /\ UNCHANGED <<disk, store, draft, opens, damaged>>

Stored(secrets, ref, value) == [secrets EXCEPT ![ref] = value]

\* A candidate never replaces a secret that is there.
Free(ref) == store[ref] = NoSecret

\* The references a failed Set leaves for rollback to delete.
Attempted_forgets(w, ref) == w.committed
Attempted(w, ref)         == w.committed \cup {ref}

StoreSecret(s) ==
  /\ work[s].step = "storing"
  /\ \E ref \in work[s].todo :
       \/ /\ Free(ref)
          /\ store' = Stored(store, ref, draft[s].overlay[ref])
          /\ work' = [work EXCEPT ![s].todo = @ \ {ref}, ![s].committed = @ \cup {ref}]
       \/ /\ Free(ref)
          /\ store' \in {store, Stored(store, ref, draft[s].overlay[ref])}
          /\ work' = [work EXCEPT ![s].step = "discarding", ![s].committed = Attempted(work[s], ref)]
       \/ /\ work' = [work EXCEPT ![s].step = "discarding"]
          /\ UNCHANGED store
  /\ UNCHANGED <<disk, draft, opens, damaged>>

Obsolete_base(d) == RefsOf(d.base)

\* What pruneOrphanSecrets deletes: references only the previous configuration uses.
Obsolete(d) == RefsOf(d.base) \ (RefsOf(d.pending) \cup Held(d.overlay))

\* The Apply as it goes on to prune.
Pruning(s, keep) ==
  [work[s] EXCEPT !.step = "pruning", !.todo = Obsolete(draft[s]) \ keep, !.keep = keep]

\* A command neither restarts the daemon nor checks it, and may keep the secret it removes.
SaveConfig(s) ==
  /\ work[s].step = "storing" /\ work[s].todo = {}
  /\ \/ /\ disk' = [exists |-> TRUE, content |-> draft[s].pending]
        /\ IF Web(s)
           THEN work' = [work EXCEPT ![s].step = "restarting"]
           ELSE \E keep \in {{}, Obsolete(draft[s])} : work' = [work EXCEPT ![s] = Pruning(s, keep)]
     \/ /\ work' = [work EXCEPT ![s].step = "discarding"]
        /\ UNCHANGED disk
  /\ UNCHANGED <<store, draft, opens, damaged>>

Restart(s) ==
  /\ work[s].step = "restarting"
  /\ \E next \in {"verifying", "restoring"} : work' = [work EXCEPT ![s].step = next]
  /\ UNCHANGED <<disk, store, draft, opens, damaged>>

Verify(s) ==
  /\ work[s].step = "verifying"
  /\ \/ work' = [work EXCEPT ![s] = Pruning(s, {})]
     \/ work' = [work EXCEPT ![s].step = "restoring"]
  /\ UNCHANGED <<disk, store, draft, opens, damaged>>

\* The first deletion that fails ends the pruning, with a warning.
Prune(s) ==
  /\ work[s].step = "pruning"
  /\ \E ref \in work[s].todo :
       \/ /\ store' = Stored(store, ref, NoSecret)
          /\ work' = [work EXCEPT ![s].todo = @ \ {ref}]
       \/ /\ work' = [work EXCEPT ![s].todo = {}, ![s].broken = TRUE]
          /\ UNCHANGED store
  /\ UNCHANGED <<disk, draft, opens, damaged>>

\* The new revision is read last; if that fails, the web keeps its draft.
Complete(s) ==
  /\ work[s].step = "pruning" /\ work[s].todo = {}
  /\ \/ /\ work' = Ended(s, IF work[s].broken THEN "warning" ELSE "ok")
        /\ draft' = [draft EXCEPT ![s] = NoDraft]
     \/ /\ work' = Ended(s, "unread")
        /\ draft' = [draft EXCEPT ![s] = IF Web(s) THEN @ ELSE NoDraft]
  /\ UNCHANGED <<disk, store, opens, damaged>>

-----------------------------------------------------------------------------
(* Rollback.                                                               *)

\* A restoration that fails may have replaced the file; then nothing is restarted.
Restore(s) ==
  /\ work[s].step = "restoring"
  /\ \/ /\ disk' = work[s].previous
        /\ work' = [work EXCEPT ![s].step = "recovering"]
        /\ UNCHANGED damaged
     \/ /\ disk' \in {disk} \cup (IF work[s].previous.exists THEN {work[s].previous} ELSE {})
        /\ work' = [work EXCEPT ![s].step = "discarding", ![s].broken = TRUE]
        /\ damaged' = TRUE
  /\ UNCHANGED <<store, draft, opens>>

Recover(s) ==
  /\ work[s].step = "recovering"
  /\ \E ok \in BOOLEAN :
       work' = [work EXCEPT ![s].step = "discarding", ![s].broken = ~ok]
  /\ UNCHANGED <<disk, store, draft, opens, damaged>>

Discard(s) ==
  /\ work[s].step = "discarding"
  /\ \E ref \in work[s].committed, ok \in BOOLEAN :
       /\ work' = [work EXCEPT ![s].committed = @ \ {ref}, ![s].broken = @ \/ ~ok]
       /\ store' = IF ok THEN Stored(store, ref, NoSecret) ELSE store
  /\ UNCHANGED <<disk, draft, opens, damaged>>

RollBack(s) ==
  /\ work[s].step = "discarding" /\ work[s].committed = {}
  /\ work' = Ended(s, IF work[s].broken THEN "manual" ELSE "rolled_back")
  /\ draft' = [draft EXCEPT ![s] = IF Web(s) THEN @ ELSE NoDraft]
  /\ UNCHANGED <<disk, store, opens, damaged>>

\* The process dies, and with it the draft and the rest of an Apply.
Crash(s) ==
  /\ draft[s].phase # "none"
  /\ draft' = [draft EXCEPT ![s] = NoDraft]
  /\ work' = [work EXCEPT ![s] = NoWork]
  /\ UNCHANGED <<disk, store, opens, damaged>>

-----------------------------------------------------------------------------

ServiceStep(s) ==
  \/ LoadBase(s) \/ ReadRevision(s)
  \/ Stage(s) \/ Name(s) \/ Toggle(s) \/ Remove(s) \/ Test(s)
  \/ StartApply(s) \/ ReadPrevious(s) \/ StoreSecret(s) \/ SaveConfig(s)
  \/ Restart(s) \/ Verify(s) \/ Prune(s) \/ Complete(s)
  \/ Restore(s) \/ Recover(s) \/ Discard(s) \/ RollBack(s)
  \/ Crash(s)

Overlap == \E s, t \in Services : s # t /\ BusyOn(s) /\ BusyOn(t)

\* The step with which an Apply has saved its draft.
Saves(s) == work[s].step = "storing" /\ work'[s].step \in {"restarting", "pruning"}

\* The references a draft adds that no secret is under, be it new or old.
Unbacked(d) == RefsOf(d.pending) \ (RefsOf(d.base) \cup Held(d.overlay) \cup Held(store))

\* raced: since its revision check.  bare: until an Apply finds a secret there.
ConfigNext ==
  \E s \in Services :
    /\ ServiceStep(s)
    /\ overlapped' = (overlapped \/ Overlap')
    /\ raced' = {t \in Services : /\ ~Idle(t)'
                                  /\ \/ t \in raced
                                     \/ t # s /\ ~Idle(t) /\ disk' # disk}
    /\ bare' = (IF work[s].step = "checked" THEN bare \ Held(store) ELSE bare)
                 \cup (IF Saves(s) THEN Unbacked(draft[s]) ELSE {})

ConfigSpec == ConfigInit /\ [][ConfigNext]_configVars

-----------------------------------------------------------------------------
(* Correctness.                                                            *)

\* Types; besides, only an open draft is applied, rollback deletes nothing but
\* candidates (apply.go Apply, rollback), and a test that passed is kept only for the
\* entry and the candidate as they now are (draft.go EditProvider, TestProvider).
ConfigTypeOK ==
  /\ disk \in Files
  /\ store \in Secrets
  /\ draft \in [Services -> Drafts]
  /\ work \in [Services -> Works]
  /\ opens \in 0 .. MaxDrafts
  /\ overlapped \in BOOLEAN
  /\ raced \subseteq Services
  /\ bare \subseteq Refs
  /\ damaged \in BOOLEAN
  /\ \A s \in Services :
       /\ Idle(s) \/ draft[s].phase = "open"
       /\ work[s].committed \subseteq Held(draft[s].overlay)
       /\ \A p \in Providers : draft[s].tested[p] \subseteq {Fingerprint(draft[s], p)}

\* Whatever fails, and wherever a process dies, every reference in the configuration
\* file has its secret, unless an operator named one that had none, without entering
\* it (draft.go EditProvider, provider.go providerAdd): candidates are stored before
\* the file names them, obsolete secrets go after it stopped naming them, and a
\* rollback restores the file before it deletes the candidates (apply.go Apply,
\* rollback).  Two Applies at once may break it, and so does a restoration that failed.
RefsResolve == overlapped \/ damaged \/ RefsOf(disk.content) \subseteq Held(store) \cup bare

\* What the secrets are after a successful Apply that began with those of the work.
AfterApply(d, w) ==
  [ref \in Refs |-> IF d.overlay[ref] # NoSecret THEN d.overlay[ref]
                    ELSE IF ref \in Obsolete(d) \ w.keep THEN NoSecret ELSE w.held[ref]]

\* An Apply tells its caller what it did: after "rolled back", file and secrets are
\* those it began with; after success, the file is the draft's and the store holds its
\* candidates and no obsolete secret (apply.go Apply, rollback, ErrRollbackFailed).
\* Of Applies at once it promises nothing.
OutcomesTell ==
  [][\A s \in Services :
       ~Idle(s) /\ work'[s].step = "idle" /\ ~overlapped =>
         CASE work'[s].outcome = "rolled_back" -> disk = work[s].previous /\ store = work[s].held
           [] work'[s].outcome = "ok" ->
                disk.content = draft[s].pending /\ store = AfterApply(draft[s], work[s])
           [] OTHER -> TRUE]_configVars

\* A draft whose content and revision are of different files: another process saved
\* between the two reads of OpenDraft.
Torn(d) == d.revision.content # d.base

\* However the drafts and Applies of several processes interleave, an Apply replaces
\* only the content its draft was made from, and its rollback only what it saved
\* itself, but in two windows that the code leaves open: OpenDraft reads the file
\* twice, and an Apply never looks again after its revision check (apply.go Apply,
\* restorePreviousConfig).  There it overwrites another process's change unseen, which
\* Module-Spec-005 section 6.1 excludes.
NoLostUpdate ==
  [][\A s \in Services \ raced :
       ~Torn(draft[s]) /\ disk' # disk /\ work'[s] # work[s] =>
         disk.content = IF work[s].step = "restoring" THEN draft[s].pending
                                                      ELSE draft[s].base]_configVars

\* A secret the web administration puts to use is the very one that passed a test
\* with the entry that is saved; where it names a reference without entering a secret,
\* the entry passed with what was stored there at the time (draft.go
\* validateRequiredTests, providerFingerprint).  Of Applies at once it promises nothing.
TestedIsWhatRuns ==
  [][\A s \in WebServices, p \in Providers :
       LET entry     == disk'.content[p]
           ref       == <<p, entry.version>>
           candidate == draft[s].overlay[ref]
       IN  work[s].step = "storing" /\ work'[s].step = "restarting"
           /\ entry.state = "enabled" /\ ref \notin RefsOf(disk.content) /\ ~overlapped =>
             /\ <<entry, candidate>> \in draft[s].tested[p]
             /\ candidate # NoSecret => store[ref] = candidate]_configVars
=============================================================================
