----------------------- MODULE ConfigTransaction_proofs ----------------------
(***************************************************************************)
(* Theorems about ConfigTransaction, for any number of services and        *)
(* providers and any failure or crash: types, that every reference in the  *)
(* configuration file has its secret unless it was named without, that     *)
(* outcomes are true, that no update is lost but in the two windows the    *)
(* code leaves, and that the web administration puts nothing untested to   *)
(* use.                                                                    *)
(*                                                                         *)
(* The argument: as long as no two services were at work on the file at    *)
(* once, the step of an Apply says how far it has brought file and store   *)
(* (Progress): first the candidates, on references that were free, then    *)
(* the file, then the deletions.  A service that is not at work leaves     *)
(* file and store alone (Aside), so only its own steps concern an Apply.   *)
(* That no update is lost needs no such proviso (Watched).                 *)
(***************************************************************************)
EXTENDS ConfigTransaction, TLAPS

\* What the draft of a service was made from, and that an Apply of the web
\* administration went past its check of the tests with this very draft.
Founded(s) ==
  /\ draft[s].phase = "loading" => draft[s].base = disk.content
  /\ draft[s].phase = "open" => draft[s].base = draft[s].revision.content
  /\ Web(s) /\ ~ Idle(s) => Tested(draft[s])

\* The candidates under these references, on top of the secrets the Apply found.
Committed(s, refs) ==
  [ref \in Refs |-> IF ref \in refs THEN draft[s].overlay[ref] ELSE work[s].held[ref]]

\* Candidates take free references only.
NewTo(s, refs) == \A ref \in refs : work[s].held[ref] = NoSecret

Candidates(s) == Held(draft[s].overlay)

Before(s) == disk = work[s].previous
After(s)  == disk = [exists |-> TRUE, content |-> draft[s].pending]

\* How far the Apply of a service has brought the file and the store.
Progress(s) ==
  LET w == work[s] IN
  /\ w.step = "checked" => disk = draft[s].revision /\ w.committed = {}
  /\ w.step \in Steps \ {"idle", "checked"} =>
       /\ w.previous = draft[s].revision
       /\ damaged \/ RefsOf(draft[s].base) \subseteq Held(w.held) \cup bare
  /\ w.step = "storing" =>
       /\ Before(s)
       /\ w.todo = Candidates(s) \ w.committed
       /\ NewTo(s, w.committed)
       /\ store = Committed(s, w.committed)
  /\ w.step \in {"restarting", "verifying", "restoring", "recovering"} =>
       /\ IF w.step = "recovering" THEN Before(s) ELSE After(s)
       /\ w.committed = Candidates(s)
       /\ NewTo(s, w.committed)
       /\ store = Committed(s, w.committed)
  /\ w.step \in {"checked", "storing", "restarting", "verifying", "restoring"} => ~ w.broken
  /\ w.step = "pruning" =>
       /\ After(s)
       /\ w.todo \subseteq Obsolete(draft[s]) \ w.keep
       /\ w.broken \/ \A ref \in Refs :
            store[ref] = IF ref \in w.todo THEN w.held[ref] ELSE AfterApply(draft[s], w)[ref]
  /\ w.step = "discarding" =>
       /\ Before(s) \/ (w.broken /\ damaged)
       /\ NewTo(s, w.committed)
       /\ w.broken \/ \A ref \in Refs \ w.committed : store[ref] = w.held[ref]

\* Every reference in the file has its secret or was saved without one, unless a
\* restoration failed.
Sound == damaged \/ RefsOf(disk.content) \subseteq Held(store) \cup bare

\* What the history of references without a secret keeps and gains with a step.
Grows(s) ==
  /\ bare \ Held(store) \subseteq bare'
  /\ work[s].step # "checked" => bare \subseteq bare'
  /\ Saves(s) => Unbacked(draft[s]) \subseteq bare'

\* No two services at work on the file, so far.
Apart == ~ Overlap /\ \A s \in Services : Founded(s) /\ Progress(s)

\* What types say of a draft and of the Apply under way on it.
Vouched(d) == \A p \in Providers : d.tested[p] \subseteq {Fingerprint(d, p)}

DraftOK(d) == d \in Drafts /\ Vouched(d)

WorkOK(w, d) ==
  /\ w \in Works
  /\ w.step = "idle" \/ d.phase = "open"
  /\ w.committed \subseteq Held(d.overlay)
  /\ w.step = "idle" => w.committed = {}
  /\ w.step = "storing" => w.todo \subseteq Held(d.overlay)

TypeInv ==
  /\ ConfigTypeOK
  /\ \A s \in Services : WorkOK(work[s], draft[s])

ConfigInv ==
  /\ TypeInv
  /\ overlapped \/ Apart
  /\ RefsResolve

-----------------------------------------------------------------------------
(* Types. *)

LEMMA RefsType ==
  ASSUME NEW config \in Configs
  PROVE  RefsOf(config) \subseteq Refs
BY DEF RefsOf, Refs, Configs, Entries

\* The records a service starts with.
LEMMA EmptyTypes ==
  /\ Absent \in Entries /\ Empty \in Configs /\ NoSecrets \in Secrets /\ NoFile \in Files
  /\ NoDraft \in Drafts /\ NoWork \in Works
  /\ Held(NoSecrets) = {} /\ RefsOf(Empty) = {}
<1> USE ConfigAssumption
<1>1. Absent \in Entries
  BY DEF Absent, Entries
<1>2. Empty \in Configs /\ RefsOf(Empty) = {}
  BY <1>1 DEF Empty, Configs, RefsOf, Absent
<1>3. NoSecrets \in Secrets /\ Held(NoSecrets) = {}
  BY DEF NoSecrets, Secrets, Held
<1>4. NoFile \in Files
  BY <1>2 DEF NoFile, Files
<1>5. NoDraft \in Drafts
  BY <1>2, <1>3, <1>4 DEF NoDraft, Drafts
<1>6. NoWork \in Works
  BY <1>3, <1>4 DEF NoWork, Works, Steps, Outcomes
<1> QED
  BY <1>1, <1>2, <1>3, <1>4, <1>5, <1>6

\* A step of a service touches no other.
Touches(s) ==
  /\ draft' = [draft EXCEPT ![s] = draft'[s]]
  /\ work' = [work EXCEPT ![s] = work'[s]]

LEMMA TypesOf ==
  ASSUME TypeInv, NEW s \in Services
  PROVE  /\ DraftOK(draft[s]) /\ WorkOK(work[s], draft[s])
         /\ draft \in [Services -> Drafts] /\ work \in [Services -> Works]
         /\ draft[s] \in Drafts /\ draft[s].overlay \in Secrets
         /\ draft[s].pending \in Configs /\ draft[s].base \in Configs
<1>1. draft[s] \in Drafts /\ WorkOK(work[s], draft[s])
  BY DEF TypeInv, ConfigTypeOK
<1>2. DraftOK(draft[s])
  BY <1>1 DEF TypeInv, ConfigTypeOK, DraftOK, Vouched
<1>3. /\ draft[s].overlay \in Secrets
      /\ draft[s].pending \in Configs /\ draft[s].base \in Configs
  BY <1>1 DEF Drafts
<1> QED
  BY <1>1, <1>2, <1>3 DEF TypeInv, ConfigTypeOK

LEMMA ServiceTypes ==
  ASSUME TypeInv, NEW s \in Services, Touches(s),
         DraftOK(draft'[s]), WorkOK(work'[s], draft'[s]),
         disk' \in Files, store' \in Secrets, opens' \in 0 .. MaxDrafts,
         overlapped' \in BOOLEAN, damaged' \in BOOLEAN, raced' \subseteq Services, bare' \subseteq Refs
  PROVE  TypeInv'
<1>1. /\ draft' \in [Services -> Drafts] /\ work' \in [Services -> Works]
      /\ \A t \in Services \ {s} : draft'[t] = draft[t] /\ work'[t] = work[t]
  BY TypesOf DEF Touches, DraftOK, WorkOK
<1>2. \A t \in Services : DraftOK(draft'[t]) /\ WorkOK(work'[t], draft'[t])
  BY <1>1, TypesOf
<1>3. \A t \in Services :
        /\ Idle(t)' \/ draft'[t].phase = "open"
        /\ work'[t].committed \subseteq Held(draft'[t].overlay)
        /\ \A p \in Providers : draft'[t].tested[p] \subseteq {Fingerprint(draft'[t], p)}
  BY <1>2 DEF DraftOK, Vouched, WorkOK, Idle
<1>4. ConfigTypeOK'
  BY <1>1, <1>3 DEF ConfigTypeOK
<1> QED
  BY <1>2, <1>4 DEF TypeInv

\* No draft has passed a test.
LEMMA NoDraftOK == DraftOK(NoDraft) /\ NoDraft.phase = "none" /\ WorkOK(NoWork, NoDraft)
BY EmptyTypes DEF DraftOK, Vouched, NoDraft, WorkOK, NoWork

LEMMA LoadBaseType ==
  ASSUME TypeInv, NEW s \in Services, LoadBase(s)
  PROVE  /\ Touches(s) /\ DraftOK(draft'[s]) /\ WorkOK(work'[s], draft'[s])
         /\ opens' \in 0 .. MaxDrafts
         /\ draft'[s].phase = "loading" /\ draft'[s].base = disk.content
<1> DEFINE d == [NoDraft EXCEPT !.phase = "loading", !.base = disk.content, !.pending = disk.content]
<1>1. /\ d \in Drafts /\ d.base = disk.content /\ d.pending = disk.content /\ d.overlay = NoSecrets
      /\ d.phase = "loading" /\ \A p \in Providers : d.tested[p] = {}
  BY EmptyTypes DEF TypeInv, ConfigTypeOK, Drafts, Files, NoDraft
<1>2. draft' = [draft EXCEPT ![s] = d] /\ UNCHANGED work /\ work[s].step = "idle"
  BY DEF LoadBase, Idle
<1>3. draft'[s] = d /\ work'[s] = work[s]
  BY <1>2, TypesOf
<1>4. work[s].committed = {}
  BY <1>2, TypesOf DEF WorkOK
<1>5. opens' \in 0 .. MaxDrafts
  BY ConfigAssumption DEF LoadBase, TypeInv, ConfigTypeOK
<1> QED
  BY <1>1, <1>2, <1>3, <1>4, <1>5, TypesOf DEF Touches, DraftOK, Vouched, WorkOK

LEMMA ReadRevisionType ==
  ASSUME TypeInv, NEW s \in Services, ReadRevision(s)
  PROVE  /\ Touches(s) /\ DraftOK(draft'[s]) /\ WorkOK(work'[s], draft'[s])
         /\ draft'[s] = [draft[s] EXCEPT !.phase = "open", !.revision = disk]
<1> DEFINE d == [draft[s] EXCEPT !.phase = "open", !.revision = disk]
<1>1. draft' = [draft EXCEPT ![s] = d] /\ UNCHANGED work
  BY TypesOf DEF ReadRevision
<1>2. /\ d \in Drafts /\ d.base = draft[s].base /\ d.pending = draft[s].pending
      /\ d.overlay = draft[s].overlay /\ d.tested = draft[s].tested /\ d.phase = "open"
  BY TypesOf DEF DraftOK, Drafts, TypeInv, ConfigTypeOK
<1>3. draft'[s] = d /\ work'[s] = work[s]
  BY <1>1, TypesOf
<1> QED
  BY <1>1, <1>2, <1>3, TypesOf DEF Touches, DraftOK, Vouched, Fingerprint, WorkOK

-----------------------------------------------------------------------------
(* Types: the edits of a draft. *)

Tests == [Providers -> SUBSET (Entries \X (Values \cup {NoSecret}))]

\* A draft with other contents.
Redraft(d, pending, overlay, tested) ==
  [d EXCEPT !.overlay = overlay, !.pending = pending, !.tested = tested]

\* The draft is still made from the same file.
SameGround(d, e) == e.base = d.base /\ e.revision = d.revision /\ e.phase = d.phase

LEMMA Redrafted ==
  ASSUME NEW d \in Drafts, NEW pending \in Configs, NEW overlay \in Secrets, NEW tested \in Tests
  PROVE  LET new == Redraft(d, pending, overlay, tested)
         IN  /\ new \in Drafts
             /\ SameGround(d, new) /\ new.edits = d.edits
             /\ new.base = d.base
             /\ new.overlay = overlay /\ new.pending = pending /\ new.tested = tested
BY DEF Drafts, Tests, Redraft, SameGround

\* An edit of one provider takes back its test, and leaves what others were tested with.
LEMMA StillVouched ==
  ASSUME NEW d, DraftOK(d), NEW e \in Drafts, NEW p \in Providers,
         e.tested = [d.tested EXCEPT ![p] = {}],
         \A q \in Providers \ {p} : e.pending[q] = d.pending[q],
         \A ref \in Refs : ref[1] # p => e.overlay[ref] = d.overlay[ref]
  PROVE  DraftOK(e)
<1>1. d \in Drafts /\ d.tested \in Tests
  BY DEF DraftOK, Drafts, Tests
<1>2. e.tested[p] = {}
  BY <1>1 DEF Tests
<1>3. ASSUME NEW q \in Providers \ {p}
      PROVE  e.tested[q] \subseteq {Fingerprint(e, q)}
  <2>1. e.tested[q] = d.tested[q] /\ d.tested[q] \subseteq {Fingerprint(d, q)}
    BY <1>1, <1>3 DEF Tests, DraftOK, Vouched
  <2>2. <<q, d.pending[q].version>> \in Refs
    BY <1>1 DEF Drafts, Configs, Entries, Refs
  <2>3. Fingerprint(e, q) = Fingerprint(d, q)
    BY <1>3, <2>2 DEF Fingerprint
  <2> QED
    BY <2>1, <2>3
<1> QED
  BY <1>2, <1>3 DEF DraftOK, Vouched

\* One more secret is held where one is put, one less where one is deleted.
LEMMA HeldWith ==
  ASSUME NEW secrets \in Secrets, NEW ref \in Refs, NEW value \in Values
  PROVE  /\ Stored(secrets, ref, value) \in Secrets
         /\ Held(Stored(secrets, ref, value)) = Held(secrets) \cup {ref}
BY ConfigAssumption DEF Stored, Secrets, Held

LEMMA HeldWithout ==
  ASSUME NEW secrets \in Secrets, NEW ref \in Refs
  PROVE  /\ Stored(secrets, ref, NoSecret) \in Secrets
         /\ Held(Stored(secrets, ref, NoSecret)) = Held(secrets) \ {ref}
BY DEF Stored, Secrets, Held

\* An edit replaces the draft of an idle service by another one that is in place.
LEMMA EditType ==
  ASSUME TypeInv, NEW s \in Services, NEW d, DraftOK(d), Edit(s, d), d.edits = draft[s].edits,
         SameGround(draft[s], d)
  PROVE  /\ Touches(s) /\ DraftOK(draft'[s]) /\ WorkOK(work'[s], draft'[s])
         /\ SameGround(draft[s], draft'[s])
<1> DEFINE e == [d EXCEPT !.edits = @ + 1]
<1>1. draft' = [draft EXCEPT ![s] = e] /\ UNCHANGED work /\ work[s].step = "idle"
  BY DEF Edit, Idle
<1>2. d.edits + 1 \in 0 .. MaxEdits
  BY ConfigAssumption, TypesOf DEF Edit, DraftOK, Drafts
<1>3. /\ e \in Drafts /\ e.base = d.base /\ e.pending = d.pending /\ e.overlay = d.overlay
      /\ e.revision = d.revision /\ e.phase = d.phase /\ e.tested = d.tested
  BY <1>2 DEF DraftOK, Drafts
<1>4. draft'[s] = e /\ work'[s] = work[s] /\ work[s].committed = {}
  BY <1>1, TypesOf DEF WorkOK
<1>5. DraftOK(e)
  BY <1>3 DEF DraftOK, Vouched, Fingerprint
<1> QED
  BY <1>1, <1>3, <1>4, <1>5, TypesOf DEF Touches, WorkOK, SameGround

\* An edit that names a reference, and leaves the candidates of other providers alone.
LEMMA RenamedOK ==
  ASSUME NEW d, DraftOK(d), NEW p \in Providers, NEW v \in 0 .. MaxVersion,
         NEW overlay \in Secrets, \A ref \in Refs : ref[1] # p => overlay[ref] = d.overlay[ref]
  PROVE  LET new == [Named(d, p, v) EXCEPT !.overlay = overlay]
         IN  DraftOK(new) /\ new.edits = d.edits /\ SameGround(d, new)
<1>0. d \in Drafts /\ d.pending \in Configs
  BY DEF DraftOK, Drafts
<1> DEFINE entry == [state |-> IF d.pending[p].state = "absent" THEN "enabled" ELSE d.pending[p].state,
                     version |-> v]
           pending == [d.pending EXCEPT ![p] = entry]
           tested  == [d.tested EXCEPT ![p] = {}]
           new     == Redraft(d, pending, overlay, tested)
<1>1. entry \in Entries
  BY <1>0 DEF Configs, Entries
<1>2. pending \in Configs /\ tested \in Tests
  BY <1>0, <1>1 DEF Drafts, Configs, Tests
<1>3. new = [Named(d, p, v) EXCEPT !.overlay = overlay]
  BY <1>0 DEF Redraft, Named, Drafts
<1>4. \A q \in Providers \ {p} : pending[q] = d.pending[q]
  BY <1>0 DEF Configs
<1>5. /\ new \in Drafts /\ new.edits = d.edits /\ SameGround(d, new)
      /\ new.overlay = overlay /\ new.pending = pending /\ new.tested = tested
  <2> HIDE DEF pending, tested
  <2> QED
    BY <1>0, <1>2, Redrafted
<1>6. DraftOK(new)
  <2> HIDE DEF new, pending
  <2> QED
    BY <1>4, <1>5, StillVouched
<1> HIDE DEF new
<1> QED
  BY <1>3, <1>5, <1>6

LEMMA VersionsType ==
  ASSUME TypeInv, NEW s \in Services, NEW p \in Providers
  PROVE  Versions(draft[s], p) \subseteq 0 .. MaxVersion
<1>1. draft[s].pending[p].version \in 0 .. MaxVersion
  BY TypesOf DEF Configs, Entries
<1>2. Names \subseteq 0 .. MaxVersion
  BY ConfigAssumption
<1> QED
  BY <1>1, <1>2 DEF Versions

LEMMA StageType ==
  ASSUME TypeInv, NEW s \in Services, Stage(s)
  PROVE  /\ Touches(s) /\ DraftOK(draft'[s]) /\ WorkOK(work'[s], draft'[s])
         /\ SameGround(draft[s], draft'[s])
<1> DEFINE d == draft[s]
<1>0. PICK p \in Providers : \E value \in Values, rotate \in BOOLEAN : \E named \in Versions(d, p) :
        LET v == CandidateVersion(d, p, named, rotate)
        IN  v <= MaxVersion /\ Edit(s, Staged(d, p, v, value))
  BY DEF Stage
<1>1. PICK value \in Values, rotate \in BOOLEAN, named \in Versions(d, p) :
        LET v == CandidateVersion(d, p, named, rotate)
        IN  v <= MaxVersion /\ Edit(s, Staged(d, p, v, value))
  BY <1>0
<1> DEFINE v == CandidateVersion(d, p, named, rotate)
           new == Staged(d, p, v, value)
<1>2. v \in 0 .. MaxVersion
  <2>1. named \in Nat
    BY VersionsType
  <2>2. v \in {1, named, NextVersion(named)}
    BY DEF CandidateVersion
  <2>3. v \in Nat
    BY <2>1, <2>2 DEF NextVersion
  <2> QED
    BY <1>1, <2>3, ConfigAssumption
<1>3. DraftOK(new) /\ new.edits = d.edits /\ SameGround(d, new)
  <2> DEFINE overlay == Stored(d.overlay, <<p, v>>, value)
  <2>1. <<p, v>> \in Refs
    BY <1>2 DEF Refs
  <2>2. overlay \in Secrets /\ \A ref \in Refs : ref[1] # p => overlay[ref] = d.overlay[ref]
    BY <2>1, TypesOf, HeldWith DEF Stored, Secrets
  <2>3. new = [Named(d, p, v) EXCEPT !.overlay = overlay]
    BY TypesOf DEF Staged, Named, Stored, Drafts
  <2> HIDE DEF v, overlay, new
  <2> QED
    BY <1>2, <2>2, <2>3, TypesOf, RenamedOK
<1> HIDE DEF new
<1> QED
  BY <1>1, <1>3, EditType DEF new

LEMMA NameType ==
  ASSUME TypeInv, NEW s \in Services, Name(s)
  PROVE  /\ Touches(s) /\ DraftOK(draft'[s]) /\ WorkOK(work'[s], draft'[s])
         /\ SameGround(draft[s], draft'[s])
<1> DEFINE d == draft[s]
<1>0. PICK p \in Providers : \E v \in Versions(d, p) : Edit(s, Named(d, p, v))
  BY DEF Name
<1>1. PICK v \in Versions(d, p) : Edit(s, Named(d, p, v))
  BY <1>0
<1>2. v \in 0 .. MaxVersion
  BY VersionsType
<1> DEFINE new == Named(d, p, v)
<1>3. DraftOK(new) /\ new.edits = d.edits /\ SameGround(d, new)
  <2>1. new = [new EXCEPT !.overlay = d.overlay]
    BY TypesOf DEF Named, Drafts
  <2> HIDE DEF new
  <2> QED
    BY <1>2, <2>1, TypesOf, RenamedOK DEF new
<1> HIDE DEF new
<1> QED
  BY <1>1, <1>3, EditType DEF new

LEMMA ToggleType ==
  ASSUME TypeInv, NEW s \in Services, Toggle(s)
  PROVE  /\ Touches(s) /\ DraftOK(draft'[s]) /\ WorkOK(work'[s], draft'[s])
         /\ SameGround(draft[s], draft'[s])
<1> DEFINE d == draft[s]
<1>0. d \in Drafts /\ d.overlay \in Secrets /\ d.pending \in Configs
  BY TypesOf
<1>1. PICK p \in Providers :
        /\ d.pending[p].state # "absent"
        /\ Edit(s, [d EXCEPT
             !.pending[p].state = IF @ = "enabled" THEN "disabled" ELSE "enabled",
             !.tested[p] = {}])
  BY DEF Toggle
<1> DEFINE entry == [d.pending[p] EXCEPT !.state = IF @ = "enabled" THEN "disabled" ELSE "enabled"]
           pending == [d.pending EXCEPT ![p] = entry]
           tested  == [d.tested EXCEPT ![p] = {}]
           new == Redraft(d, pending, d.overlay, tested)
<1>2. entry \in Entries /\ entry.version = d.pending[p].version
  BY TypesOf DEF DraftOK, Drafts, Configs, Entries
<1>3. pending \in Configs /\ tested \in Tests
  BY <1>2, TypesOf DEF DraftOK, Drafts, Configs, Tests
<1>4. new = [d EXCEPT
             !.pending[p].state = IF @ = "enabled" THEN "disabled" ELSE "enabled",
             !.tested[p] = {}]
  BY TypesOf DEF DraftOK, Drafts, Redraft
<1>5. /\ new \in Drafts /\ new.base = d.base /\ new.edits = d.edits
      /\ new.overlay = d.overlay /\ new.pending = pending /\ new.tested = tested
      /\ SameGround(d, new)
  <2> HIDE DEF d, pending, tested
  <2> QED BY <1>3, <1>0, Redrafted
<1>6. \A q \in Providers \ {p} : pending[q] = d.pending[q]
  BY <1>0 DEF Configs
<1>7. DraftOK(new)
  <2> HIDE DEF new, pending
  <2> QED BY <1>5, <1>6, TypesOf, StillVouched
<1>8. Edit(s, new)
  BY <1>1, <1>4
<1> HIDE DEF new
<1> QED
  BY <1>5, <1>7, <1>8, EditType

LEMMA RemoveType ==
  ASSUME TypeInv, NEW s \in Services, Remove(s)
  PROVE  /\ Touches(s) /\ DraftOK(draft'[s]) /\ WorkOK(work'[s], draft'[s])
         /\ SameGround(draft[s], draft'[s])
<1> DEFINE d == draft[s]
<1>0. d \in Drafts /\ d.overlay \in Secrets /\ d.pending \in Configs
  BY TypesOf
<1>1. PICK p \in Providers :
        Edit(s, [d EXCEPT
         !.pending[p] = Absent,
         !.overlay = [ref \in Refs |-> IF ref[1] = p THEN NoSecret ELSE @[ref]],
         !.tested[p] = {}])
  BY DEF Remove
<1> DEFINE overlay == [ref \in Refs |-> IF ref[1] = p THEN NoSecret ELSE d.overlay[ref]]
           pending == [d.pending EXCEPT ![p] = Absent]
           tested  == [d.tested EXCEPT ![p] = {}]
           new == Redraft(d, pending, overlay, tested)
<1>2. overlay \in Secrets
  BY TypesOf DEF DraftOK, Drafts, Secrets
<1>3. pending \in Configs /\ tested \in Tests
  BY EmptyTypes, TypesOf DEF DraftOK, Drafts, Configs, Tests
<1>4. new = [d EXCEPT
         !.pending[p] = Absent,
         !.overlay = [ref \in Refs |-> IF ref[1] = p THEN NoSecret ELSE @[ref]],
         !.tested[p] = {}]
  BY TypesOf DEF DraftOK, Drafts, Redraft
<1>5. /\ new \in Drafts /\ new.base = d.base /\ new.edits = d.edits
      /\ new.overlay = overlay /\ new.pending = pending /\ new.tested = tested
      /\ SameGround(d, new)
  <2> HIDE DEF d, overlay, pending, tested
  <2> QED BY <1>2, <1>3, <1>0, Redrafted
<1>6. \A q \in Providers \ {p} : pending[q] = d.pending[q]
  BY <1>0 DEF Configs
<1>7. \A ref \in Refs : ref[1] # p => overlay[ref] = d.overlay[ref]
  OBVIOUS
<1>8. DraftOK(new)
  <2> HIDE DEF new, pending, overlay
  <2> QED BY <1>5, <1>6, <1>7, TypesOf, StillVouched
<1>9. Edit(s, new)
  BY <1>1, <1>4
<1> HIDE DEF new
<1> QED
  BY <1>5, <1>8, <1>9, EditType

LEMMA TestType ==
  ASSUME TypeInv, NEW s \in Services, Test(s)
  PROVE  /\ Touches(s) /\ DraftOK(draft'[s]) /\ WorkOK(work'[s], draft'[s])
         /\ SameGround(draft[s], draft'[s])
<1> DEFINE d == draft[s]
<1>0. d \in Drafts /\ d.overlay \in Secrets /\ d.pending \in Configs
  BY TypesOf
<1>1. PICK p \in Providers, passed \in BOOLEAN :
        /\ draft' = [draft EXCEPT ![s].tested[p] = IF passed THEN {Fingerprint(d, p)} ELSE {}]
        /\ UNCHANGED work
  BY DEF Test
<1> DEFINE tested == [d.tested EXCEPT ![p] = IF passed THEN {Fingerprint(d, p)} ELSE {}]
           new == Redraft(d, d.pending, d.overlay, tested)
<1>2. d.pending[p] \in Entries /\ <<p, d.pending[p].version>> \in Refs
  BY TypesOf DEF DraftOK, Drafts, Configs, Entries, Refs
<1>3. Fingerprint(d, p) \in Entries \X (Values \cup {NoSecret})
  BY <1>2, TypesOf DEF Fingerprint, DraftOK, Drafts, Secrets
<1>4. tested \in Tests
  BY <1>3, TypesOf DEF DraftOK, Drafts, Tests
<1>5. /\ new \in Drafts /\ new.base = d.base /\ new.phase = d.phase
      /\ new.overlay = d.overlay /\ new.pending = d.pending /\ new.tested = tested
      /\ SameGround(d, new)
  <2> HIDE DEF d, tested
  <2>1. SameGround(d, new) => new.phase = d.phase
    BY DEF SameGround
  <2> QED BY <1>4, <1>0, <2>1, Redrafted
<1>6. draft' = [draft EXCEPT ![s] = new]
  BY <1>1, TypesOf DEF DraftOK, Drafts, Redraft
<1>7. draft'[s] = new /\ work'[s] = work[s]
  BY <1>1, <1>6, TypesOf
<1>8. \A q \in Providers : tested[q] \subseteq {Fingerprint(d, q)}
  BY <1>0, TypesOf DEF DraftOK, Vouched, Drafts
<1> HIDE DEF new, tested
<1>9. DraftOK(new)
  BY <1>5, <1>8 DEF DraftOK, Vouched, Fingerprint
<1> QED
  BY <1>1, <1>5, <1>6, <1>7, <1>9, TypesOf DEF Touches, WorkOK

-----------------------------------------------------------------------------
(* Types: the steps of an Apply. *)

\* A new record of the work under way, on the same draft.
LEMMA WorkType ==
  ASSUME TypeInv, NEW s \in Services, UNCHANGED draft,
         NEW w, work' = [work EXCEPT ![s] = w], WorkOK(w, draft[s])
  PROVE  /\ Touches(s) /\ DraftOK(draft'[s]) /\ WorkOK(work'[s], draft'[s])
         /\ work'[s] = w
BY TypesOf DEF Touches

\* The end, with the draft kept or dropped.
LEMMA EndType ==
  ASSUME TypeInv, NEW s \in Services, NEW outcome \in Outcomes,
         draft' \in {draft, [draft EXCEPT ![s] = NoDraft]}, work' = Ended(s, outcome)
  PROVE  /\ Touches(s) /\ DraftOK(draft'[s]) /\ WorkOK(work'[s], draft'[s])
         /\ draft'[s] \in {draft[s], NoDraft}
         /\ work'[s].step = "idle" /\ work'[s].outcome = outcome
<1> DEFINE w == [NoWork EXCEPT !.outcome = outcome]
<1>1. w \in Works /\ w.step = "idle" /\ w.committed = {} /\ w.outcome = outcome
  BY EmptyTypes DEF Works, NoWork
<1>2. work' = [work EXCEPT ![s] = w]
  BY DEF Ended
<1>3. work'[s] = w /\ draft'[s] \in {draft[s], NoDraft}
  BY <1>2, TypesOf
<1>4. Touches(s)
  BY <1>2, <1>3, TypesOf DEF Touches
<1>5. WorkOK(w, draft'[s])
  BY <1>1 DEF WorkOK
<1> QED
  BY <1>1, <1>3, <1>4, <1>5, TypesOf, NoDraftOK

\* The Apply at another step.
LEMMA NextStepType ==
  ASSUME TypeInv, NEW s \in Services, UNCHANGED draft, ~ Idle(s),
         NEW next \in Steps \ {"idle", "storing"}, NEW broken \in BOOLEAN,
         work' = [work EXCEPT ![s] = [work[s] EXCEPT !.step = next, !.broken = broken]]
  PROVE  /\ Touches(s) /\ DraftOK(draft'[s]) /\ WorkOK(work'[s], draft'[s])
         /\ work'[s] = [work[s] EXCEPT !.step = next, !.broken = broken]
<1> DEFINE w == [work[s] EXCEPT !.step = next, !.broken = broken]
<1>1. w \in Works /\ w.step = next /\ w.committed = work[s].committed
  BY TypesOf DEF WorkOK, Works
<1>2. WorkOK(w, draft[s])
  BY <1>1, TypesOf DEF WorkOK, Idle
<1> HIDE DEF w
<1> QED
  BY <1>2, WorkType DEF w

LEMMA StartApplyType ==
  ASSUME TypeInv, NEW s \in Services, StartApply(s)
  PROVE  Touches(s) /\ DraftOK(draft'[s]) /\ WorkOK(work'[s], draft'[s])
<1>1. CASE Stale(draft[s])
  BY <1>1, EndType DEF StartApply, Outcomes
<1>2. CASE ~ Stale(draft[s])
  <2> DEFINE w == [NoWork EXCEPT !.step = "checked"]
  <2>1. w \in Works /\ w.committed = {} /\ w.step = "checked"
    BY EmptyTypes DEF Works, NoWork, Steps
  <2>2. WorkOK(w, draft[s])
    BY <2>1 DEF StartApply, WorkOK
  <2>3. work' = [work EXCEPT ![s] = w] /\ UNCHANGED draft
    BY <1>2 DEF StartApply
  <2> HIDE DEF w
  <2> QED
    BY <2>2, <2>3, WorkType
<1> QED
  BY <1>1, <1>2

LEMMA ReadPreviousType ==
  ASSUME TypeInv, NEW s \in Services, ReadPrevious(s)
  PROVE  /\ Touches(s) /\ DraftOK(draft'[s]) /\ WorkOK(work'[s], draft'[s])
         /\ work'[s] = [work[s] EXCEPT !.step = "storing", !.previous = disk,
                                       !.todo = Candidates(s), !.held = store]
<1> DEFINE w == [work[s] EXCEPT !.step = "storing", !.previous = disk,
                                !.todo = Candidates(s), !.held = store]
<1>1. disk \in Files /\ store \in Secrets /\ Candidates(s) \subseteq Refs
  BY DEF TypeInv, ConfigTypeOK, Candidates, Held
<1>2. /\ w \in Works /\ w.committed = work[s].committed /\ w.step = "storing"
      /\ w.todo = Candidates(s)
  BY <1>1, TypesOf DEF WorkOK, Works, Steps
<1>3. WorkOK(w, draft[s])
  BY <1>2, TypesOf DEF ReadPrevious, WorkOK, Candidates
<1>4. work' = [work EXCEPT ![s] = w] /\ UNCHANGED draft
  BY TypesOf DEF ReadPrevious, Candidates
<1> HIDE DEF w
<1> QED
  BY <1>3, <1>4, WorkType DEF w

\* The ways a StoreSecret goes: stored, failed with or without effect, refused.
StoredOne(s, ref) ==
  [work[s] EXCEPT !.todo = work[s].todo \ {ref}, !.committed = work[s].committed \cup {ref}]

FailedOn(s, ref) ==
  [work[s] EXCEPT !.step = "discarding", !.committed = work[s].committed \cup {ref}]

RefusedOne(s) == [work[s] EXCEPT !.step = "discarding"]

LEMMA StoreSecretCases ==
  ASSUME TypeInv, NEW s \in Services, StoreSecret(s)
  PROVE  \E ref \in work[s].todo :
           \/ /\ Free(ref)
              /\ store' = Stored(store, ref, draft[s].overlay[ref])
              /\ work' = [work EXCEPT ![s] = StoredOne(s, ref)]
           \/ /\ Free(ref)
              /\ store' \in {store, Stored(store, ref, draft[s].overlay[ref])}
              /\ work' = [work EXCEPT ![s] = FailedOn(s, ref)]
           \/ /\ store' = store
              /\ work' = [work EXCEPT ![s] = RefusedOne(s)]
<1>1. PICK ref \in work[s].todo :
       \/ /\ Free(ref)
          /\ store' = Stored(store, ref, draft[s].overlay[ref])
          /\ work' = [work EXCEPT ![s].todo = @ \ {ref}, ![s].committed = @ \cup {ref}]
       \/ /\ Free(ref)
          /\ store' \in {store, Stored(store, ref, draft[s].overlay[ref])}
          /\ work' = [work EXCEPT ![s].step = "discarding", ![s].committed = Attempted(work[s], ref)]
       \/ /\ work' = [work EXCEPT ![s].step = "discarding"]
          /\ UNCHANGED store
  BY DEF StoreSecret
<1>2. [work EXCEPT ![s].todo = @ \ {ref}, ![s].committed = @ \cup {ref}]
        = [work EXCEPT ![s] = StoredOne(s, ref)]
  BY TypesOf DEF StoredOne
<1>3. [work EXCEPT ![s].step = "discarding", ![s].committed = Attempted(work[s], ref)]
        = [work EXCEPT ![s] = FailedOn(s, ref)]
  BY TypesOf DEF Attempted, FailedOn
<1>4. [work EXCEPT ![s].step = "discarding"] = [work EXCEPT ![s] = RefusedOne(s)]
  BY TypesOf DEF RefusedOne
<1> QED
  BY <1>1, <1>2, <1>3, <1>4

\* A candidate is a secret.
LEMMA CandidateType ==
  ASSUME TypeInv, NEW s \in Services, NEW ref \in Candidates(s)
  PROVE  ref \in Refs /\ draft[s].overlay[ref] \in Values
BY TypesOf DEF Candidates, Held, Secrets

LEMMA StoreSecretType ==
  ASSUME TypeInv, NEW s \in Services, StoreSecret(s)
  PROVE  Touches(s) /\ DraftOK(draft'[s]) /\ WorkOK(work'[s], draft'[s]) /\ store' \in Secrets
<1>1. UNCHANGED draft /\ work[s].step = "storing" /\ ~ Idle(s)
  BY DEF StoreSecret, Idle
<1>2. PICK ref \in work[s].todo :
           \/ /\ Free(ref)
              /\ store' = Stored(store, ref, draft[s].overlay[ref])
              /\ work' = [work EXCEPT ![s] = StoredOne(s, ref)]
           \/ /\ Free(ref)
              /\ store' \in {store, Stored(store, ref, draft[s].overlay[ref])}
              /\ work' = [work EXCEPT ![s] = FailedOn(s, ref)]
           \/ /\ store' = store
              /\ work' = [work EXCEPT ![s] = RefusedOne(s)]
  BY StoreSecretCases
<1>3. ref \in Candidates(s)
  BY <1>1, TypesOf DEF WorkOK, Candidates
<1>4. store' \in Secrets
  <2>1. store \in Secrets
    BY DEF TypeInv, ConfigTypeOK
  <2>2. Stored(store, ref, draft[s].overlay[ref]) \in Secrets
    BY <1>3, <2>1, CandidateType, HeldWith
  <2> QED
    BY <1>2, <2>1, <2>2
<1>5. /\ work[s] \in Works /\ draft[s].phase = "open" /\ ref \in Refs
      /\ work[s].committed \subseteq Candidates(s) /\ work[s].todo \subseteq Candidates(s)
  BY <1>1, <1>3, CandidateType, TypesOf DEF WorkOK, Candidates
<1>6. WorkOK(StoredOne(s, ref), draft[s])
  <2>1. LET w == StoredOne(s, ref)
        IN  /\ w \in Works /\ w.committed = work[s].committed \cup {ref} /\ w.step = "storing"
            /\ w.todo = work[s].todo \ {ref}
    BY <1>1, <1>5 DEF Works, StoredOne
  <2> QED
    BY <2>1, <1>1, <1>3, <1>5 DEF WorkOK, Candidates
<1>7. WorkOK(FailedOn(s, ref), draft[s])
  <2>1. LET w == FailedOn(s, ref)
        IN  w \in Works /\ w.committed = work[s].committed \cup {ref} /\ w.step = "discarding"
    BY <1>1, <1>5 DEF Works, Steps, FailedOn
  <2> QED
    BY <2>1, <1>3, <1>5 DEF WorkOK, Candidates
<1>8. WorkOK(RefusedOne(s), draft[s])
  <2>1. LET w == RefusedOne(s)
        IN  w \in Works /\ w.committed = work[s].committed /\ w.step = "discarding"
    BY <1>5 DEF Works, Steps, RefusedOne
  <2> QED
    BY <2>1, <1>5 DEF WorkOK, Candidates
<1>9. \E w \in {StoredOne(s, ref), FailedOn(s, ref), RefusedOne(s)} : work' = [work EXCEPT ![s] = w]
  BY <1>2
<1> QED
  BY <1>1, <1>4, <1>6, <1>7, <1>8, <1>9, WorkType

LEMMA ObsoleteType ==
  ASSUME TypeInv, NEW s \in Services
  PROVE  Obsolete(draft[s]) \subseteq RefsOf(draft[s].base) /\ Obsolete(draft[s]) \subseteq Refs
BY TypesOf, RefsType DEF Obsolete

LEMMA PruningType ==
  ASSUME TypeInv, NEW s \in Services, ~ Idle(s), UNCHANGED draft,
         NEW keep \in {{}, Obsolete(draft[s])}, work' = [work EXCEPT ![s] = Pruning(s, keep)]
  PROVE  /\ Touches(s) /\ DraftOK(draft'[s]) /\ WorkOK(work'[s], draft'[s])
         /\ work'[s] = Pruning(s, keep)
<1> DEFINE w == Pruning(s, keep)
<1>1. keep \subseteq Refs /\ Obsolete(draft[s]) \ keep \subseteq Refs
  BY ObsoleteType
<1>2. w \in Works /\ w.step = "pruning" /\ w.committed = work[s].committed
  BY <1>1, TypesOf DEF WorkOK, Works, Steps, Pruning
<1>3. WorkOK(w, draft[s])
  BY <1>2, TypesOf DEF WorkOK, Idle
<1> HIDE DEF w
<1> QED
  BY <1>3, WorkType DEF w

\* Where a SaveConfig or a Verify leads.
LEMMA SaveConfigType ==
  ASSUME TypeInv, NEW s \in Services, SaveConfig(s)
  PROVE  Touches(s) /\ DraftOK(draft'[s]) /\ WorkOK(work'[s], draft'[s]) /\ disk' \in Files
<1>1. UNCHANGED draft /\ ~ Idle(s) /\ work[s] \in Works
  BY TypesOf DEF SaveConfig, Idle, WorkOK
<1>2. disk' \in Files
  <2>1. disk \in Files /\ [exists |-> TRUE, content |-> draft[s].pending] \in Files
    BY TypesOf DEF Files, TypeInv, ConfigTypeOK
  <2> QED
    BY <2>1 DEF SaveConfig
<1>3. \/ \E next \in {"restarting", "discarding"} :
           work' = [work EXCEPT ![s] = [work[s] EXCEPT !.step = next, !.broken = work[s].broken]]
      \/ \E keep \in {{}, Obsolete(draft[s])} : work' = [work EXCEPT ![s] = Pruning(s, keep)]
  <2>1. \A next \in {"restarting", "discarding"} :
          [work EXCEPT ![s].step = next]
            = [work EXCEPT ![s] = [work[s] EXCEPT !.step = next, !.broken = work[s].broken]]
    BY <1>1, TypesOf DEF Works
  <2> QED
    BY <2>1 DEF SaveConfig
<1>4. work[s].broken \in BOOLEAN
  BY <1>1 DEF Works
<1> QED
  BY <1>1, <1>2, <1>3, <1>4, NextStepType, PruningType DEF Steps

LEMMA RestartType ==
  ASSUME TypeInv, NEW s \in Services, Restart(s)
  PROVE  Touches(s) /\ DraftOK(draft'[s]) /\ WorkOK(work'[s], draft'[s])
<1>1. UNCHANGED draft /\ ~ Idle(s) /\ work[s] \in Works /\ work[s].broken \in BOOLEAN
  BY TypesOf DEF Restart, Idle, WorkOK, Works
<1>2. PICK next \in {"verifying", "restoring"} :
           work' = [work EXCEPT ![s] = [work[s] EXCEPT !.step = next, !.broken = work[s].broken]]
  BY <1>1, TypesOf DEF Restart, Works
<1> QED
  BY <1>1, <1>2, NextStepType DEF Steps

LEMMA VerifyType ==
  ASSUME TypeInv, NEW s \in Services, Verify(s)
  PROVE  Touches(s) /\ DraftOK(draft'[s]) /\ WorkOK(work'[s], draft'[s])
<1>1. UNCHANGED draft /\ ~ Idle(s) /\ work[s] \in Works /\ work[s].broken \in BOOLEAN
  BY TypesOf DEF Verify, Idle, WorkOK, Works
<1>2. CASE work' = [work EXCEPT ![s] = Pruning(s, {})]
  BY <1>1, <1>2, PruningType
<1>3. CASE work' = [work EXCEPT ![s].step = "restoring"]
  <2>1. work' = [work EXCEPT ![s] = [work[s] EXCEPT !.step = "restoring", !.broken = work[s].broken]]
    BY <1>1, <1>3, TypesOf DEF Works
  <2> QED
    BY <1>1, <2>1, NextStepType DEF Steps
<1> QED
  BY <1>2, <1>3 DEF Verify

LEMMA PruneType ==
  ASSUME TypeInv, NEW s \in Services, Prune(s)
  PROVE  Touches(s) /\ DraftOK(draft'[s]) /\ WorkOK(work'[s], draft'[s]) /\ store' \in Secrets
<1>1. UNCHANGED draft /\ work[s].step = "pruning" /\ work[s] \in Works /\ work[s].todo \subseteq Refs
  BY TypesOf DEF Prune, WorkOK, Works
<1>2. PICK ref \in work[s].todo :
       \/ /\ store' = Stored(store, ref, NoSecret)
          /\ work' = [work EXCEPT ![s].todo = @ \ {ref}]
       \/ /\ work' = [work EXCEPT ![s].todo = {}, ![s].broken = TRUE]
          /\ UNCHANGED store
  BY DEF Prune
<1>3. store' \in Secrets
  BY <1>1, <1>2, HeldWithout DEF TypeInv, ConfigTypeOK
<1> DEFINE deleted == [work[s] EXCEPT !.todo = work[s].todo \ {ref}]
           ended == [work[s] EXCEPT !.todo = {}, !.broken = TRUE]
<1>4. WorkOK(deleted, draft[s])
  <2>1. deleted \in Works /\ deleted.step = "pruning" /\ deleted.committed = work[s].committed
    BY <1>1 DEF Works
  <2> QED
    BY <1>1, <2>1, TypesOf DEF WorkOK
<1>5. WorkOK(ended, draft[s])
  <2>1. ended \in Works /\ ended.step = "pruning" /\ ended.committed = work[s].committed
    BY <1>1 DEF Works
  <2> QED
    BY <1>1, <2>1, TypesOf DEF WorkOK
<1>6. \E w \in {deleted, ended} : work' = [work EXCEPT ![s] = w]
  BY <1>2, TypesOf
<1> HIDE DEF deleted, ended
<1> QED
  BY <1>1, <1>3, <1>4, <1>5, <1>6, WorkType

LEMMA CompleteType ==
  ASSUME TypeInv, NEW s \in Services, Complete(s)
  PROVE  /\ Touches(s) /\ DraftOK(draft'[s]) /\ WorkOK(work'[s], draft'[s])
         /\ draft'[s] \in {draft[s], NoDraft} /\ Idle(s)'
<1>1. draft' \in {draft, [draft EXCEPT ![s] = NoDraft]}
  BY TypesOf DEF Complete
<1>2. \E outcome \in Outcomes : work' = Ended(s, outcome)
  BY DEF Complete, Outcomes
<1> QED
  BY <1>1, <1>2, EndType DEF Idle

LEMMA RestoreType ==
  ASSUME TypeInv, NEW s \in Services, Restore(s)
  PROVE  /\ Touches(s) /\ DraftOK(draft'[s]) /\ WorkOK(work'[s], draft'[s])
         /\ disk' \in Files /\ damaged' \in BOOLEAN
<1>1. UNCHANGED draft /\ ~ Idle(s) /\ work[s] \in Works /\ work[s].broken \in BOOLEAN
  BY TypesOf DEF Restore, Idle, WorkOK, Works
<1>2. disk' \in Files /\ damaged' \in BOOLEAN
  BY <1>1 DEF Restore, Works, TypeInv, ConfigTypeOK
<1>3. CASE work' = [work EXCEPT ![s].step = "recovering"]
  <2>1. work' = [work EXCEPT ![s] = [work[s] EXCEPT !.step = "recovering", !.broken = work[s].broken]]
    BY <1>1, <1>3, TypesOf DEF Works
  <2> QED
    BY <1>1, <1>2, <2>1, NextStepType DEF Steps
<1>4. CASE work' = [work EXCEPT ![s].step = "discarding", ![s].broken = TRUE]
  <2>1. work' = [work EXCEPT ![s] = [work[s] EXCEPT !.step = "discarding", !.broken = TRUE]]
    BY <1>1, <1>4, TypesOf DEF Works
  <2> QED
    BY <1>1, <1>2, <2>1, NextStepType DEF Steps
<1> QED
  BY <1>3, <1>4 DEF Restore

LEMMA RecoverType ==
  ASSUME TypeInv, NEW s \in Services, Recover(s)
  PROVE  Touches(s) /\ DraftOK(draft'[s]) /\ WorkOK(work'[s], draft'[s])
<1>1. UNCHANGED draft /\ ~ Idle(s)
  BY DEF Recover, Idle
<1>2. PICK ok \in BOOLEAN :
        work' = [work EXCEPT ![s] = [work[s] EXCEPT !.step = "discarding", !.broken = ~ok]]
  BY TypesOf DEF Recover
<1> QED
  BY <1>1, <1>2, NextStepType DEF Steps

LEMMA DiscardType ==
  ASSUME TypeInv, NEW s \in Services, Discard(s)
  PROVE  Touches(s) /\ DraftOK(draft'[s]) /\ WorkOK(work'[s], draft'[s]) /\ store' \in Secrets
<1>1. UNCHANGED draft /\ work[s].step = "discarding" /\ work[s] \in Works
      /\ work[s].committed \subseteq Refs
  BY TypesOf DEF Discard, WorkOK, Works
<1>2. PICK ref \in work[s].committed, ok \in BOOLEAN :
       /\ work' = [work EXCEPT ![s].committed = @ \ {ref}, ![s].broken = @ \/ ~ok]
       /\ store' = IF ok THEN Stored(store, ref, NoSecret) ELSE store
  BY DEF Discard
<1>3. store' \in Secrets
  BY <1>1, <1>2, HeldWithout DEF TypeInv, ConfigTypeOK
<1> DEFINE w == [work[s] EXCEPT !.committed = work[s].committed \ {ref},
                                !.broken = work[s].broken \/ ~ok]
<1>4. WorkOK(w, draft[s])
  <2>1. /\ w \in Works /\ w.step = "discarding"
        /\ w.committed = work[s].committed \ {ref}
    BY <1>1 DEF Works
  <2> QED
    BY <1>1, <2>1, TypesOf DEF WorkOK
<1>5. work' = [work EXCEPT ![s] = w]
  BY <1>2, TypesOf
<1> HIDE DEF w
<1> QED
  BY <1>1, <1>3, <1>4, <1>5, WorkType

LEMMA RollBackType ==
  ASSUME TypeInv, NEW s \in Services, RollBack(s)
  PROVE  /\ Touches(s) /\ DraftOK(draft'[s]) /\ WorkOK(work'[s], draft'[s])
         /\ draft'[s] \in {draft[s], NoDraft} /\ Idle(s)'
<1>1. draft' \in {draft, [draft EXCEPT ![s] = NoDraft]}
  BY TypesOf DEF RollBack
<1>2. \E outcome \in Outcomes : work' = Ended(s, outcome)
  BY DEF RollBack, Outcomes
<1> QED
  BY <1>1, <1>2, EndType DEF Idle

LEMMA CrashType ==
  ASSUME TypeInv, NEW s \in Services, Crash(s)
  PROVE  /\ Touches(s) /\ DraftOK(draft'[s]) /\ WorkOK(work'[s], draft'[s])
         /\ draft'[s] = NoDraft /\ work'[s] = NoWork
<1>1. draft' = [draft EXCEPT ![s] = NoDraft] /\ work' = [work EXCEPT ![s] = NoWork]
  BY DEF Crash
<1>2. draft'[s] = NoDraft /\ work'[s] = NoWork
  BY <1>1, TypesOf
<1> QED
  BY <1>1, <1>2, NoDraftOK, EmptyTypes DEF Touches

LEMMA TypeInit == ConfigInit => TypeInv
<1> SUFFICES ASSUME ConfigInit PROVE TypeInv
  OBVIOUS
<1>1. PICK v \in Names, value \in Values, providers \in SUBSET Providers, exists \in BOOLEAN :
       LET content == [p \in Providers |->
             IF p \in providers THEN [state |-> "enabled", version |-> v] ELSE Absent]
       IN  /\ disk = [exists |-> exists, content |-> content]
           /\ store = [ref \in Refs |-> IF ref \in RefsOf(content) THEN value ELSE NoSecret]
  BY DEF ConfigInit
<1> DEFINE content == [p \in Providers |->
             IF p \in providers THEN [state |-> "enabled", version |-> v] ELSE Absent]
<1>2. content \in Configs
  BY ConfigAssumption, EmptyTypes DEF Configs, Entries
<1>3. disk \in Files /\ store \in Secrets
  BY <1>1, <1>2 DEF Files, Secrets
<1>4. /\ draft \in [Services -> Drafts] /\ work \in [Services -> Works]
      /\ \A s \in Services : draft[s] = NoDraft /\ work[s] = NoWork
  BY EmptyTypes DEF ConfigInit
<1>5. \A s \in Services : DraftOK(draft[s]) /\ WorkOK(work[s], draft[s])
  BY <1>4, NoDraftOK
<1>6. \A s \in Services :
        /\ Idle(s) \/ draft[s].phase = "open"
        /\ work[s].committed \subseteq Held(draft[s].overlay)
        /\ \A p \in Providers : draft[s].tested[p] \subseteq {Fingerprint(draft[s], p)}
  BY <1>5 DEF DraftOK, Vouched, WorkOK, Idle
<1>7. /\ opens = 0 /\ overlapped = FALSE /\ raced = {} /\ bare = {} /\ damaged = FALSE
      /\ 0 \in 0 .. MaxDrafts
  BY ConfigAssumption DEF ConfigInit
<1>8. ConfigTypeOK
  BY <1>3, <1>4, <1>6, <1>7 DEF ConfigTypeOK
<1> QED
  BY <1>5, <1>8 DEF TypeInv

LEMMA OverlapType == overlapped \in BOOLEAN => (overlapped \/ Overlap') \in BOOLEAN
OBVIOUS

\* What a step of a service adds to the history.
HistoryStep(s) ==
  /\ overlapped' = (overlapped \/ Overlap')
  /\ raced' = {t \in Services : /\ ~Idle(t)'
                                /\ \/ t \in raced
                                   \/ t # s /\ ~Idle(t) /\ disk' # disk}
  /\ bare' = (IF work[s].step = "checked" THEN bare \ Held(store) ELSE bare)
               \cup (IF Saves(s) THEN Unbacked(draft[s]) ELSE {})

LEMMA HistoryType ==
  ASSUME TypeInv, NEW s \in Services, HistoryStep(s)
  PROVE  overlapped' \in BOOLEAN /\ raced' \subseteq Services /\ bare' \subseteq Refs
<1>1. overlapped' \in BOOLEAN
  BY OverlapType DEF HistoryStep, TypeInv, ConfigTypeOK
<1>2. Unbacked(draft[s]) \subseteq Refs
  BY TypesOf, RefsType DEF Unbacked
<1>3. bare' \subseteq Refs
  BY <1>2 DEF HistoryStep, TypeInv, ConfigTypeOK
<1> QED
  BY <1>1, <1>3 DEF HistoryStep

LEMMA HistoryGrows ==
  ASSUME NEW s, HistoryStep(s)
  PROVE  Grows(s)
BY DEF HistoryStep, Grows

LEMMA TypeStep == TypeInv /\ [ConfigNext]_configVars => TypeInv'
<1> SUFFICES ASSUME TypeInv, [ConfigNext]_configVars
             PROVE  TypeInv'
  OBVIOUS
<1>1. CASE UNCHANGED configVars
  BY <1>1 DEF configVars, TypeInv, ConfigTypeOK, Idle, Fingerprint
<1>2. CASE ConfigNext
  <2>1. PICK s \in Services : ServiceStep(s) /\ HistoryStep(s)
    BY <1>2 DEF ConfigNext, HistoryStep
  <2>2. overlapped' \in BOOLEAN /\ raced' \subseteq Services /\ bare' \subseteq Refs
    BY <2>1, HistoryType
  <2>3. disk \in Files /\ store \in Secrets /\ opens \in 0 .. MaxDrafts /\ damaged \in BOOLEAN
    BY DEF TypeInv, ConfigTypeOK
  <2> DEFINE Typed == Touches(s) /\ DraftOK(draft'[s]) /\ WorkOK(work'[s], draft'[s])
  <2>4. ASSUME Typed, disk' \in Files, store' \in Secrets, opens' \in 0 .. MaxDrafts,
               damaged' \in BOOLEAN
        PROVE  TypeInv'
    BY <2>2, <2>4, ServiceTypes
  <2>5. CASE LoadBase(s)
    <3>1. Typed /\ opens' \in 0 .. MaxDrafts
      BY <2>5, LoadBaseType
    <3> QED
      BY <2>3, <2>4, <2>5, <3>1 DEF LoadBase
  <2>6. ASSUME UNCHANGED <<disk, store, opens, damaged>>, Typed
        PROVE  TypeInv'
    BY <2>3, <2>4, <2>6
  <2>7. CASE ReadRevision(s)
    BY <2>6, <2>7, ReadRevisionType DEF ReadRevision
  <2>8. CASE Stage(s)
    BY <2>6, <2>8, StageType DEF Stage, Edit
  <2>25. CASE Name(s)
    BY <2>6, <2>25, NameType DEF Name, Edit
  <2>9. CASE Toggle(s)
    BY <2>6, <2>9, ToggleType DEF Toggle, Edit
  <2>10. CASE Remove(s)
    BY <2>6, <2>10, RemoveType DEF Remove, Edit
  <2>11. CASE Test(s)
    BY <2>6, <2>11, TestType DEF Test
  <2>12. CASE StartApply(s)
    BY <2>6, <2>12, StartApplyType DEF StartApply
  <2>13. CASE ReadPrevious(s)
    BY <2>6, <2>13, ReadPreviousType DEF ReadPrevious
  <2>14. CASE StoreSecret(s)
    BY <2>3, <2>4, <2>14, StoreSecretType DEF StoreSecret
  <2>15. CASE SaveConfig(s)
    BY <2>3, <2>4, <2>15, SaveConfigType DEF SaveConfig
  <2>16. CASE Restart(s)
    BY <2>6, <2>16, RestartType DEF Restart
  <2>17. CASE Verify(s)
    BY <2>6, <2>17, VerifyType DEF Verify
  <2>18. CASE Prune(s)
    BY <2>3, <2>4, <2>18, PruneType DEF Prune
  <2>19. CASE Complete(s)
    BY <2>6, <2>19, CompleteType DEF Complete
  <2>20. CASE Restore(s)
    BY <2>3, <2>4, <2>20, RestoreType DEF Restore
  <2>21. CASE Recover(s)
    BY <2>6, <2>21, RecoverType DEF Recover
  <2>22. CASE Discard(s)
    BY <2>3, <2>4, <2>22, DiscardType DEF Discard
  <2>23. CASE RollBack(s)
    BY <2>6, <2>23, RollBackType DEF RollBack
  <2>24. CASE Crash(s)
    BY <2>6, <2>24, CrashType DEF Crash
  <2> QED
    BY <2>1, <2>5, <2>7, <2>8, <2>9, <2>10, <2>11, <2>12, <2>13, <2>14, <2>15, <2>16, <2>17,
       <2>18, <2>19, <2>20, <2>21, <2>22, <2>23, <2>24, <2>25 DEF ServiceStep
<1> QED
  BY <1>1, <1>2

\* Types; that only an open draft is applied, that a rollback deletes nothing but
\* candidates, and that a test that passed is kept only for the entry and the candidate
\* as they now are: in every behaviour, whatever fails and wherever a process dies
\* (draft.go EditProvider, TestProvider; apply.go Apply, rollback).
THEOREM ConfigTypeCorrect == ConfigSpec => []ConfigTypeOK
<1>1. TypeInv => ConfigTypeOK
  BY DEF TypeInv
<1> QED
  BY <1>1, TypeInit, TypeStep, PTL DEF ConfigSpec
-----------------------------------------------------------------------------
(* Services keep out of each other's Applies. *)

LEMMA StepTouches ==
  ASSUME TypeInv, NEW s \in Services, ServiceStep(s)
  PROVE  Touches(s)
BY LoadBaseType, ReadRevisionType, StageType, NameType, ToggleType, RemoveType, TestType,
   StartApplyType, ReadPreviousType, StoreSecretType, SaveConfigType, RestartType, VerifyType, PruneType,
   CompleteType, RestoreType, RecoverType, DiscardType, RollBackType, CrashType
   DEF ServiceStep

\* Only an Apply writes.
LEMMA Aside ==
  ASSUME NEW s \in Services, ServiceStep(s), Idle(s)
  PROVE  UNCHANGED <<disk, store, damaged>>
BY DEF ServiceStep, Idle, LoadBase, ReadRevision, Stage, Name, Toggle, Remove, Edit, Test, StartApply,
       ReadPrevious, StoreSecret, SaveConfig, Restart, Verify, Prune, Complete, Restore, Recover,
       Discard, RollBack, Crash

LEMMA IdleProgress ==
  ASSUME NEW s \in Services
  PROVE  /\ Idle(s) => Progress(s)
         /\ Idle(s)' => Progress(s)'
BY DEF Idle, Progress

LEMMA OthersKept ==
  ASSUME TypeInv, NEW s \in Services, NEW t \in Services \ {s}, ServiceStep(s), Grows(s),
         ~ Overlap, ~ Overlap', Founded(t), Progress(t)
  PROVE  Founded(t)' /\ Progress(t)'
<1>1. draft'[t] = draft[t] /\ work'[t] = work[t]
  BY StepTouches, TypesOf DEF Touches
<1>2. CASE BusyOn(t)
  <2>1. ~ BusyOn(s)
    BY <1>2 DEF Overlap
  <2>2. UNCHANGED <<disk, store, damaged>>
    BY <2>1, Aside DEF BusyOn
  <2>5. bare \subseteq bare'
    BY <2>1 DEF BusyOn, Idle, Grows
  <2>3. Founded(t)'
    BY <1>1, <2>2 DEF Founded, Idle, Web
  <2>4. Progress(t)'
    BY <1>1, <2>2, <2>5 DEF Progress, Before, After, Candidates, NewTo, Committed
  <2> QED
    BY <2>3, <2>4
<1>3. CASE ~ BusyOn(t)
  <2>1. Idle(t) /\ Idle(t)' /\ draft[t].phase # "loading"
    BY <1>1, <1>3 DEF BusyOn, Idle
  <2>2. Founded(t)'
    BY <1>1, <2>1 DEF Founded, Idle
  <2> QED
    BY <2>1, <2>2, IdleProgress
<1> QED
  BY <1>2, <1>3

-----------------------------------------------------------------------------
(* What a service's own steps keep: drafts. *)

LEMMA NoDraftKept ==
  ASSUME NEW s \in Services, draft'[s] = NoDraft, Idle(s)'
  PROVE  Founded(s)' /\ Progress(s)'
BY IdleProgress DEF Founded, Idle, NoDraft

\* What is sound stays so while file and store stay as they are.
LEMMA SoundStays ==
  ASSUME NEW s \in Services, Grows(s), Sound, UNCHANGED <<disk, store, damaged>>
  PROVE  Sound'
BY DEF Grows, Sound

LEMMA LoadBaseKept ==
  ASSUME TypeInv, NEW s \in Services, LoadBase(s), Grows(s), Sound
  PROVE  Founded(s)' /\ Progress(s)' /\ Sound'
<1>1. draft'[s].phase = "loading" /\ draft'[s].base = disk.content
  BY LoadBaseType
<1>2. Idle(s)' /\ UNCHANGED <<disk, store, damaged>>
  BY DEF LoadBase, Idle
<1>3. Founded(s)'
  BY <1>1, <1>2 DEF Founded, Idle
<1> QED
  BY <1>2, <1>3, IdleProgress, SoundStays

LEMMA ReadRevisionKept ==
  ASSUME TypeInv, NEW s \in Services, ReadRevision(s), Grows(s), Founded(s), Sound
  PROVE  Founded(s)' /\ Progress(s)' /\ Sound'
<1>1. draft[s].phase = "loading" /\ UNCHANGED <<disk, store, damaged, work>>
  BY DEF ReadRevision
<1>2. Idle(s)'
  BY <1>1, TypesOf DEF Idle, WorkOK
<1>3. draft'[s].phase = "open" /\ draft'[s].base = draft[s].base /\ draft'[s].revision = disk
  <2>1. draft'[s] = [draft[s] EXCEPT !.phase = "open", !.revision = disk]
    BY ReadRevisionType
  <2>2. draft[s] \in Drafts
    BY TypesOf
  <2> QED
    BY <2>1, <2>2 DEF Drafts
<1>4. Founded(s)'
  BY <1>1, <1>2, <1>3 DEF Founded, Idle
<1> QED
  BY <1>1, <1>2, <1>4, IdleProgress, SoundStays

\* An edit or a test changes neither what the draft was made from nor the Apply.
LEMMA EditKept ==
  ASSUME TypeInv, NEW s \in Services, Grows(s),
         Stage(s) \/ Name(s) \/ Toggle(s) \/ Remove(s) \/ Test(s), Founded(s), Sound
  PROVE  Founded(s)' /\ Progress(s)' /\ Sound'
<1>1. SameGround(draft[s], draft'[s])
  BY StageType, NameType, ToggleType, RemoveType, TestType
<1>2. Idle(s)' /\ draft[s].phase = "open" /\ UNCHANGED <<disk, store, damaged>>
  BY DEF Stage, Name, Toggle, Remove, Edit, Test, Idle
<1>3. Founded(s)'
  BY <1>1, <1>2 DEF Founded, Idle, SameGround
<1> QED
  BY <1>2, <1>3, IdleProgress, SoundStays

LEMMA CrashKept ==
  ASSUME TypeInv, NEW s \in Services, Crash(s), Grows(s), Sound
  PROVE  Founded(s)' /\ Progress(s)' /\ Sound'
<1>1. draft'[s] = NoDraft /\ Idle(s)'
  BY CrashType DEF NoWork, Idle
<1>2. UNCHANGED <<disk, store, damaged>>
  BY DEF Crash
<1> QED
  BY <1>1, <1>2, NoDraftKept, SoundStays

-----------------------------------------------------------------------------
(* What a service's own steps keep: Apply. *)

LEMMA FoundedOpen ==
  ASSUME TypeInv, NEW s \in Services, Founded(s), ~ Idle(s)
  PROVE  /\ draft[s].phase = "open" /\ draft[s].base = draft[s].revision.content
         /\ UNCHANGED draft => Founded(s)'
<1>1. draft[s].phase = "open"
  BY TypesOf DEF WorkOK, Idle
<1> QED
  BY <1>1 DEF Founded, Idle, Web

\* The end of an Apply, with file and store as they are.
LEMMA EndKept ==
  ASSUME TypeInv, NEW s \in Services, ~ Idle(s), Grows(s), Founded(s), Sound,
         draft'[s] \in {draft[s], NoDraft}, Idle(s)', UNCHANGED <<disk, store, damaged>>
  PROVE  Founded(s)' /\ Progress(s)' /\ Sound'
<1>1. draft'[s] = draft[s] => Founded(s)'
  BY FoundedOpen DEF Founded, Idle
<1>2. draft'[s] = NoDraft => Founded(s)'
  BY NoDraftKept
<1> QED
  BY <1>1, <1>2, IdleProgress, SoundStays

LEMMA StartApplyKept ==
  ASSUME TypeInv, NEW s \in Services, StartApply(s), Grows(s), Founded(s), Sound
  PROVE  Founded(s)' /\ Progress(s)' /\ Sound'
<1>1. UNCHANGED <<disk, store, damaged>> /\ draft[s].phase = "open"
  BY DEF StartApply
<1>2. CASE Stale(draft[s])
  <2>1. draft' = [draft EXCEPT ![s] = NoDraft] /\ work' = Ended(s, "conflict")
    BY <1>2 DEF StartApply
  <2>2. draft'[s] = NoDraft /\ Idle(s)'
    BY <2>1, TypesOf DEF Ended, Idle, NoWork
  <2> QED
    BY <1>1, <2>2, NoDraftKept, SoundStays
<1>3. CASE ~ Stale(draft[s])
  <2>1. /\ Web(s) => Tested(draft[s])
        /\ work' = [work EXCEPT ![s] = [NoWork EXCEPT !.step = "checked"]]
        /\ UNCHANGED draft
    BY <1>3 DEF StartApply
  <2>2. work'[s].step = "checked" /\ work'[s].committed = {} /\ ~ work'[s].broken
    BY <2>1, TypesOf DEF NoWork
  <2>3. draft[s].revision = disk
    BY <1>3 DEF Stale
  <2>4. Founded(s)'
    BY <1>1, <2>1 DEF Founded, Web
  <2>5. Progress(s)'
    BY <1>1, <2>1, <2>2, <2>3 DEF Progress
  <2> QED
    BY <1>1, <2>4, <2>5, SoundStays
<1> QED
  BY <1>2, <1>3

LEMMA CompleteKept ==
  ASSUME TypeInv, NEW s \in Services, Complete(s) \/ RollBack(s), Grows(s), Founded(s), Sound
  PROVE  Founded(s)' /\ Progress(s)' /\ Sound'
<1>1. ~ Idle(s) /\ UNCHANGED <<disk, store, damaged>>
  BY DEF Complete, RollBack, Idle
<1>2. draft'[s] \in {draft[s], NoDraft} /\ Idle(s)'
  BY CompleteType, RollBackType
<1> QED
  BY <1>1, <1>2, EndKept

LEMMA ReadPreviousKept ==
  ASSUME TypeInv, NEW s \in Services, ReadPrevious(s), Grows(s), Founded(s), Progress(s), Sound
  PROVE  Founded(s)' /\ Progress(s)' /\ Sound'
<1>1. work[s].step = "checked" /\ ~ Idle(s) /\ UNCHANGED <<disk, store, draft, damaged>>
  BY DEF ReadPrevious, Idle
<1>2. disk = draft[s].revision /\ work[s].committed = {} /\ ~ work[s].broken
  BY <1>1 DEF Progress
<1>3. /\ work'[s].step = "storing" /\ work'[s].previous = disk
      /\ work'[s].todo = Candidates(s) /\ work'[s].held = store
      /\ work'[s].committed = {} /\ ~ work'[s].broken
  <2>1. work'[s] = [work[s] EXCEPT !.step = "storing", !.previous = disk,
                                   !.todo = Candidates(s), !.held = store]
    BY ReadPreviousType
  <2>2. work[s] \in Works
    BY TypesOf DEF WorkOK
  <2> QED
    BY <1>2, <2>1, <2>2 DEF Works
<1>4. draft[s].base = disk.content
  BY <1>1, <1>2, FoundedOpen
<1>5. store = [ref \in Refs |-> IF ref \in {} THEN draft[s].overlay[ref] ELSE store[ref]]
  BY DEF TypeInv, ConfigTypeOK, Secrets
<1>6. Sound'
  BY <1>1, SoundStays
<1>7. damaged' \/ RefsOf(draft'[s].base) \subseteq Held(work'[s].held) \cup bare'
  BY <1>1, <1>3, <1>4, <1>6 DEF Sound
<1>8. Progress(s)'
  BY <1>1, <1>2, <1>3, <1>5, <1>7 DEF Progress, Before, Candidates, NewTo, Committed
<1> QED
  BY <1>1, <1>6, <1>8, FoundedOpen

\* Past its beginning, an Apply keeps the record of the references without a secret.
LEMMA BareKept ==
  ASSUME NEW s \in Services, Grows(s), work[s].step # "checked"
  PROVE  bare \subseteq bare'
BY DEF Grows

\* Where a secret is put, the store changes and nowhere else.
LEMMA StoredAt ==
  ASSUME TypeInv, NEW ref \in Refs, NEW value
  PROVE  /\ Stored(store, ref, value) = [r \in Refs |-> IF r = ref THEN value ELSE store[r]]
         /\ \A r \in Refs : store[r] \in Values \cup {NoSecret}
BY DEF Stored, TypeInv, ConfigTypeOK, Secrets

LEMMA StoreSecretKept ==
  ASSUME TypeInv, NEW s \in Services, StoreSecret(s), Grows(s), Founded(s), Progress(s), Sound
  PROVE  Founded(s)' /\ Progress(s)' /\ Sound'
<1>1. work[s].step = "storing" /\ ~ Idle(s) /\ UNCHANGED <<disk, draft, damaged>>
  BY DEF StoreSecret, Idle
<1>2. /\ Before(s) /\ work[s].todo = Candidates(s) \ work[s].committed
      /\ NewTo(s, work[s].committed) /\ store = Committed(s, work[s].committed)
      /\ work[s].previous = draft[s].revision /\ ~ work[s].broken
      /\ damaged \/ RefsOf(draft[s].base) \subseteq Held(work[s].held) \cup bare
  BY <1>1 DEF Progress, Steps
<1>3. PICK ref \in work[s].todo :
           \/ /\ Free(ref)
              /\ store' = Stored(store, ref, draft[s].overlay[ref])
              /\ work' = [work EXCEPT ![s] = StoredOne(s, ref)]
           \/ /\ Free(ref)
              /\ store' \in {store, Stored(store, ref, draft[s].overlay[ref])}
              /\ work' = [work EXCEPT ![s] = FailedOn(s, ref)]
           \/ /\ store' = store
              /\ work' = [work EXCEPT ![s] = RefusedOne(s)]
  BY StoreSecretCases
<1>4. /\ ref \in Candidates(s) /\ ref \notin work[s].committed
      /\ ref \in Refs /\ draft[s].overlay[ref] \in Values
  BY <1>2, CandidateType
<1>5. work[s] \in Works /\ work[s].committed \subseteq Refs
  BY TypesOf DEF WorkOK, Works
<1> DEFINE put == Stored(store, ref, draft[s].overlay[ref])
<1>6. Held(store) \subseteq Held(put)
  BY <1>4, HeldWith DEF TypeInv, ConfigTypeOK
<1>7. put = [r \in Refs |-> IF r = ref THEN draft[s].overlay[ref] ELSE store[r]]
  BY <1>4, StoredAt
<1>0. bare \subseteq bare'
  BY <1>1, BareKept
<1>8. Sound'
  BY <1>0, <1>1, <1>3, <1>6 DEF Sound
<1>9. Free(ref) => NewTo(s, work[s].committed \cup {ref})
  BY <1>2, <1>4 DEF Free, NewTo, Committed
<1>10. CASE Free(ref) /\ store' = put /\ work' = [work EXCEPT ![s] = StoredOne(s, ref)]
  <2>1. /\ work'[s].step = "storing" /\ work'[s].committed = work[s].committed \cup {ref}
        /\ work'[s].todo = work[s].todo \ {ref} /\ work'[s].previous = work[s].previous
        /\ work'[s].held = work[s].held /\ work'[s].broken = work[s].broken
    BY <1>1, <1>5, <1>10, TypesOf DEF StoredOne, Works
  <2>2. put = [r \in Refs |-> IF r \in work[s].committed \cup {ref} THEN draft[s].overlay[r]
                             ELSE work[s].held[r]]
    BY <1>2, <1>7 DEF Committed
  <2>3. store' = Committed(s, work[s].committed)'
    BY <1>1, <1>10, <2>1, <2>2 DEF Committed
  <2>4. NewTo(s, work[s].committed)' /\ Before(s)'
    BY <1>1, <1>2, <1>9, <1>10, <2>1 DEF NewTo, Before
  <2>5. work'[s].todo = Candidates(s)' \ work'[s].committed
    BY <1>1, <1>2, <2>1 DEF Candidates
  <2>6. Progress(s)'
    BY <1>0, <1>1, <1>2, <2>1, <2>3, <2>4, <2>5 DEF Progress
  <2> QED
    BY <1>1, <1>8, <2>6, FoundedOpen
<1>11. CASE Free(ref) /\ store' \in {store, put} /\ work' = [work EXCEPT ![s] = FailedOn(s, ref)]
  <2>1. /\ work'[s].step = "discarding" /\ work'[s].committed = work[s].committed \cup {ref}
        /\ work'[s].previous = work[s].previous
        /\ work'[s].held = work[s].held /\ work'[s].broken = work[s].broken
    BY <1>1, <1>5, <1>11, TypesOf DEF FailedOn, Works
  <2>2. \A r \in Refs \ work'[s].committed : store'[r] = work[s].held[r]
    BY <1>2, <1>7, <1>11, <2>1 DEF Committed
  <2>3. Progress(s)'
    BY <1>0, <1>1, <1>2, <1>9, <1>11, <2>1, <2>2 DEF Progress, Before, NewTo
  <2> QED
    BY <1>1, <1>8, <2>3, FoundedOpen
<1>12. CASE store' = store /\ work' = [work EXCEPT ![s] = RefusedOne(s)]
  <2>1. /\ work'[s].step = "discarding" /\ work'[s].committed = work[s].committed
        /\ work'[s].previous = work[s].previous
        /\ work'[s].held = work[s].held /\ work'[s].broken = work[s].broken
    BY <1>1, <1>5, <1>12, TypesOf DEF RefusedOne, Works
  <2>2. \A r \in Refs \ work'[s].committed : store'[r] = work[s].held[r]
    BY <1>2, <1>12, <2>1 DEF Committed
  <2>3. Progress(s)'
    BY <1>0, <1>1, <1>2, <1>12, <2>1, <2>2 DEF Progress, Before, NewTo
  <2> QED
    BY <1>1, <1>8, <2>3, FoundedOpen
<1> QED
  BY <1>3, <1>10, <1>11, <1>12

\* With all candidates stored, the store has what the configuration the draft was made
\* from refers to, and what a pruning is to leave, but for the obsolete secrets.
LEMMA AllStored ==
  ASSUME TypeInv, NEW s \in Services, store = Committed(s, Candidates(s)),
         damaged \/ RefsOf(draft[s].base) \subseteq Held(work[s].held) \cup bare
  PROVE  /\ damaged \/ RefsOf(draft[s].base) \subseteq Held(store) \cup bare
         /\ Candidates(s) \subseteq Held(store)
         /\ \A keep \in {{}, Obsolete(draft[s])}, ref \in Refs :
              LET w == Pruning(s, keep)
              IN  store[ref] = IF ref \in w.todo THEN w.held[ref] ELSE AfterApply(draft[s], w)[ref]
<1>1. Held(work[s].held) \cup Candidates(s) \subseteq Held(store)
  BY DEF Committed, Candidates, Held
<1>2. damaged \/ RefsOf(draft[s].base) \subseteq Held(store) \cup bare
  BY <1>1
<1>3. ASSUME NEW keep \in {{}, Obsolete(draft[s])}, NEW ref \in Refs
      PROVE  LET w == Pruning(s, keep)
             IN  store[ref] = IF ref \in w.todo THEN w.held[ref] ELSE AfterApply(draft[s], w)[ref]
  <2> DEFINE w == Pruning(s, keep)
  <2>1. w.todo = Obsolete(draft[s]) \ keep /\ w.keep = keep /\ w.held = work[s].held
    BY TypesOf DEF Pruning, WorkOK, Works
  <2>2. AfterApply(draft[s], w)[ref]
          = IF draft[s].overlay[ref] # NoSecret THEN draft[s].overlay[ref]
            ELSE IF ref \in Obsolete(draft[s]) \ keep THEN NoSecret ELSE work[s].held[ref]
    BY <2>1 DEF AfterApply
  <2>3. store[ref] = IF draft[s].overlay[ref] # NoSecret THEN draft[s].overlay[ref] ELSE work[s].held[ref]
    BY DEF Committed, Candidates, Held
  <2>4. ref \in Obsolete(draft[s]) => draft[s].overlay[ref] = NoSecret
    BY DEF Obsolete, Held
  <2> HIDE DEF w
  <2> QED
    BY <2>1, <2>2, <2>3, <2>4 DEF w
<1> QED
  BY <1>1, <1>2, <1>3

\* The file a SaveConfig leaves refers to what it did before, to the candidates, or to
\* what no secret was under.
LEMMA SavedSound ==
  ASSUME TypeInv, NEW s \in Services, Grows(s), Saves(s), UNCHANGED store,
         disk'.content = draft[s].pending, store = Committed(s, Candidates(s)),
         damaged \/ RefsOf(draft[s].base) \subseteq Held(work[s].held) \cup bare, damaged' = damaged
  PROVE  Sound'
<1>1. bare \subseteq bare' /\ Unbacked(draft[s]) \subseteq bare'
  BY DEF Grows, Saves
<1>2. RefsOf(draft[s].pending)
        \subseteq RefsOf(draft[s].base) \cup Candidates(s) \cup Held(store) \cup Unbacked(draft[s])
  BY DEF Unbacked, Candidates
<1>3. /\ damaged \/ RefsOf(draft[s].base) \subseteq Held(store) \cup bare
      /\ Candidates(s) \subseteq Held(store)
  BY AllStored
<1> QED
  BY <1>1, <1>2, <1>3 DEF Sound

\* The Apply at the start of its pruning, with the file saved and all candidates stored.
LEMMA PruningStarts ==
  ASSUME TypeInv, NEW s \in Services, ~ Idle(s), UNCHANGED <<store, draft, damaged>>, Founded(s),
         bare \subseteq bare', Sound', After(s)', store = Committed(s, Candidates(s)), work[s].previous = draft[s].revision,
         damaged \/ RefsOf(draft[s].base) \subseteq Held(work[s].held) \cup bare,
         NEW keep \in {{}, Obsolete(draft[s])}, work' = [work EXCEPT ![s] = Pruning(s, keep)]
  PROVE  Founded(s)' /\ Progress(s)'
<1> DEFINE w == Pruning(s, keep)
<1>1. work'[s] = w
  BY PruningType
<1>2. /\ w.step = "pruning" /\ w.previous = work[s].previous /\ w.held = work[s].held
      /\ w.todo = Obsolete(draft[s]) \ keep /\ w.keep = keep
  BY TypesOf DEF Pruning, WorkOK, Works
<1>3. disk' = [exists |-> TRUE, content |-> draft[s].pending]
  BY DEF After
<1>5. \A ref \in Refs :
        store[ref] = IF ref \in w.todo THEN w.held[ref] ELSE AfterApply(draft[s], w)[ref]
  BY AllStored
<1> HIDE DEF w
<1>6. \A ref \in Refs :
        store'[ref] = IF ref \in work'[s].todo THEN work'[s].held[ref]
                      ELSE AfterApply(draft'[s], work'[s])[ref]
  BY <1>1, <1>5
<1>7. Progress(s)'
  BY <1>1, <1>2, <1>3, <1>6 DEF Progress, After
<1> QED
  BY <1>7, FoundedOpen

LEMMA SaveConfigKept ==
  ASSUME TypeInv, NEW s \in Services, SaveConfig(s), Grows(s), Founded(s), Progress(s), Sound
  PROVE  Founded(s)' /\ Progress(s)' /\ Sound'
<1>1. /\ work[s].step = "storing" /\ work[s].todo = {} /\ ~ Idle(s)
      /\ UNCHANGED <<store, draft, damaged>>
  BY DEF SaveConfig, Idle
<1>2. /\ Before(s) /\ work[s].todo = Candidates(s) \ work[s].committed
      /\ NewTo(s, work[s].committed) /\ store = Committed(s, work[s].committed)
      /\ work[s].previous = draft[s].revision /\ ~ work[s].broken
      /\ damaged \/ RefsOf(draft[s].base) \subseteq Held(work[s].held) \cup bare
  BY <1>1 DEF Progress, Steps
<1>0. bare \subseteq bare'
  BY <1>1, BareKept
<1>3. work[s].committed = Candidates(s) /\ work[s] \in Works
  BY <1>1, <1>2, TypesOf DEF WorkOK, Candidates
<1>4. CASE disk' = [exists |-> TRUE, content |-> draft[s].pending]
           /\ work' = [work EXCEPT ![s].step = "restarting"]
  <2>1. /\ work'[s].step = "restarting" /\ work'[s].committed = work[s].committed
        /\ work'[s].previous = work[s].previous
        /\ work'[s].held = work[s].held /\ work'[s].broken = work[s].broken
    BY <1>3, <1>4, TypesOf DEF Works
  <2>2. Sound'
    BY <1>1, <1>2, <1>3, <1>4, <2>1, SavedSound DEF Saves
  <2>3. After(s)' /\ NewTo(s, work[s].committed)' /\ Candidates(s)' = Candidates(s)
    BY <1>1, <1>2, <1>4, <2>1 DEF After, NewTo, Candidates
  <2>4. store' = Committed(s, work[s].committed)'
    BY <1>1, <1>2, <2>1 DEF Committed
  <2>5. Progress(s)'
    BY <1>0, <1>1, <1>2, <1>3, <2>1, <2>3, <2>4 DEF Progress
  <2> QED
    BY <1>1, <2>2, <2>5, FoundedOpen
<1>5. ASSUME disk' = [exists |-> TRUE, content |-> draft[s].pending],
             NEW keep \in {{}, Obsolete(draft[s])}, work' = [work EXCEPT ![s] = Pruning(s, keep)]
      PROVE  Founded(s)' /\ Progress(s)' /\ Sound'
  <2>1. After(s)'
    BY <1>1, <1>5 DEF After
  <2>2. work'[s].step = "pruning"
    <3>1. work'[s] = Pruning(s, keep)
      BY <1>1, <1>5, PruningType
    <3> QED
      BY <1>3, <3>1 DEF Pruning, Works
  <2>3. Sound'
    BY <1>1, <1>2, <1>3, <1>5, <2>2, SavedSound DEF Saves
  <2> QED
    BY <1>0, <1>1, <1>2, <1>3, <1>5, <2>1, <2>3, PruningStarts
<1>6. CASE work' = [work EXCEPT ![s].step = "discarding"] /\ UNCHANGED disk
  <2>1. /\ work'[s].step = "discarding" /\ work'[s].committed = work[s].committed
        /\ work'[s].previous = work[s].previous
        /\ work'[s].held = work[s].held /\ work'[s].broken = work[s].broken
    BY <1>3, <1>6, TypesOf DEF Works
  <2>2. \A r \in Refs \ work'[s].committed : store'[r] = work[s].held[r]
    BY <1>1, <1>2, <2>1 DEF Committed
  <2>3. Progress(s)'
    BY <1>0, <1>1, <1>2, <1>6, <2>1, <2>2 DEF Progress, Before, NewTo
  <2> QED
    BY <1>1, <1>6, <2>3, FoundedOpen, SoundStays
<1> QED
  BY <1>4, <1>5, <1>6 DEF SaveConfig

\* The steps between the saving of the file and its pruning or restoration.
LEMMA SavedFacts ==
  ASSUME TypeInv, NEW s \in Services, Progress(s),
         work[s].step \in {"restarting", "verifying", "restoring", "recovering"}
  PROVE  /\ ~ Idle(s) /\ work[s] \in Works
         /\ IF work[s].step = "recovering" THEN Before(s) ELSE After(s)
         /\ work[s].committed = Candidates(s) /\ NewTo(s, work[s].committed)
         /\ store = Committed(s, Candidates(s))
         /\ work[s].previous = draft[s].revision
         /\ damaged \/ RefsOf(draft[s].base) \subseteq Held(work[s].held) \cup bare
         /\ \A r \in Refs \ work[s].committed : store[r] = work[s].held[r]
<1>1. /\ work[s].committed = Candidates(s) /\ store = Committed(s, Candidates(s))
      /\ IF work[s].step = "recovering" THEN Before(s) ELSE After(s)
  BY DEF Progress
<1>2. \A r \in Refs \ work[s].committed : store[r] = work[s].held[r]
  BY <1>1 DEF Committed
<1> QED
  BY <1>1, <1>2, TypesOf DEF Progress, Steps, Idle, WorkOK

\* The service goes on to another of them.
LEMMA SavedStep ==
  ASSUME TypeInv, NEW s \in Services, Grows(s), Founded(s), Progress(s), Sound,
         work[s].step \in {"restarting", "verifying"},
         NEW next \in {"verifying", "restoring"}, work' = [work EXCEPT ![s].step = next],
         UNCHANGED <<disk, store, draft, damaged>>
  PROVE  Founded(s)' /\ Progress(s)' /\ Sound'
<1>1. work[s] \in Works /\ ~ Idle(s)
  BY SavedFacts
<1>2. /\ work'[s].step = next /\ work'[s].committed = work[s].committed
      /\ work'[s].previous = work[s].previous
      /\ work'[s].held = work[s].held /\ work'[s].broken = work[s].broken
  BY <1>1, TypesOf DEF Works
<1>3. After(s)' /\ NewTo(s, work[s].committed)' /\ Candidates(s)' = Candidates(s)
  BY <1>2, SavedFacts DEF After, NewTo, Candidates
<1>4. store' = Committed(s, work[s].committed)'
  BY <1>2, SavedFacts DEF Committed
<1>5. ~ work[s].broken
  BY DEF Progress
<1>6. Progress(s)'
  BY <1>2, <1>3, <1>4, <1>5, BareKept, SavedFacts DEF Progress
<1> QED
  BY <1>1, <1>6, FoundedOpen, SoundStays

LEMMA RestartKept ==
  ASSUME TypeInv, NEW s \in Services, Restart(s), Grows(s), Founded(s), Progress(s), Sound
  PROVE  Founded(s)' /\ Progress(s)' /\ Sound'
BY SavedStep DEF Restart

LEMMA VerifyKept ==
  ASSUME TypeInv, NEW s \in Services, Verify(s), Grows(s), Founded(s), Progress(s), Sound
  PROVE  Founded(s)' /\ Progress(s)' /\ Sound'
<1>1. work[s].step = "verifying" /\ UNCHANGED <<disk, store, draft, damaged>>
  BY DEF Verify
<1>2. CASE work' = [work EXCEPT ![s] = Pruning(s, {})]
  <2>1. After(s)'
    BY <1>1, SavedFacts DEF After
  <2> QED
    BY <1>1, <1>2, <2>1, BareKept, SavedFacts, SoundStays, PruningStarts
<1>3. CASE work' = [work EXCEPT ![s].step = "restoring"]
  BY <1>1, <1>3, SavedStep
<1> QED
  BY <1>2, <1>3 DEF Verify

\* A restoration brings back a file whose references were held when the Apply began,
\* and no step of the Apply so far deleted a secret.
LEMMA RestoreKept ==
  ASSUME TypeInv, NEW s \in Services, Restore(s), Grows(s), Founded(s), Progress(s), Sound
  PROVE  Founded(s)' /\ Progress(s)' /\ Sound'
<1>1. work[s].step = "restoring" /\ UNCHANGED <<store, draft>>
  BY DEF Restore
<1>0. bare \subseteq bare'
  BY <1>1, BareKept
<1>2. work[s] \in Works /\ ~ Idle(s)
  BY <1>1, SavedFacts
<1>3. CASE disk' = work[s].previous /\ UNCHANGED damaged
           /\ work' = [work EXCEPT ![s].step = "recovering"]
  <2>1. /\ work'[s].step = "recovering" /\ work'[s].committed = work[s].committed
        /\ work'[s].previous = work[s].previous
        /\ work'[s].held = work[s].held /\ work'[s].broken = work[s].broken
    BY <1>2, <1>3, TypesOf DEF Works
  <2>2. Before(s)' /\ NewTo(s, work[s].committed)' /\ Candidates(s)' = Candidates(s)
    BY <1>1, <1>3, <2>1, SavedFacts DEF Before, NewTo, Candidates
  <2>3. store' = Committed(s, work[s].committed)'
    BY <1>1, <2>1, SavedFacts DEF Committed
  <2>4. Progress(s)'
    BY <1>0, <1>1, <1>3, <2>1, <2>2, <2>3, SavedFacts DEF Progress
  <2>5. disk'.content = draft[s].base
    BY <1>1, <1>2, <1>3, SavedFacts, FoundedOpen
  <2>6. Sound'
    BY <1>0, <1>1, <1>3, <2>5, SavedFacts, AllStored DEF Sound
  <2> QED
    BY <1>1, <1>2, <2>4, <2>6, FoundedOpen
<1>4. CASE work' = [work EXCEPT ![s].step = "discarding", ![s].broken = TRUE] /\ damaged' = TRUE
  <2>1. /\ work'[s].step = "discarding" /\ work'[s].committed = work[s].committed
        /\ work'[s].previous = work[s].previous
        /\ work'[s].held = work[s].held /\ work'[s].broken /\ damaged'
    BY <1>2, <1>4, TypesOf DEF Works
  <2>2. NewTo(s, work[s].committed)'
    BY <1>1, <2>1, SavedFacts DEF NewTo
  <2>3. work'[s].previous = draft'[s].revision
    BY <1>1, <2>1, SavedFacts
  <2>4. Progress(s)'
    BY <2>1, <2>2, <2>3 DEF Progress
  <2> QED
    BY <1>1, <1>2, <2>1, <2>4, FoundedOpen DEF Sound
<1> QED
  BY <1>3, <1>4 DEF Restore

LEMMA RecoverKept ==
  ASSUME TypeInv, NEW s \in Services, Recover(s), Grows(s), Founded(s), Progress(s), Sound
  PROVE  Founded(s)' /\ Progress(s)' /\ Sound'
<1>1. work[s].step = "recovering" /\ UNCHANGED <<disk, store, draft, damaged>>
  BY DEF Recover
<1>2. work[s] \in Works /\ ~ Idle(s)
  BY <1>1, SavedFacts
<1>3. /\ work'[s].step = "discarding" /\ work'[s].committed = work[s].committed
      /\ work'[s].previous = work[s].previous /\ work'[s].held = work[s].held
  BY <1>2, TypesOf DEF Recover, Works
<1>4. NewTo(s, work[s].committed)' /\ Before(s)'
  BY <1>1, <1>3, SavedFacts DEF NewTo, Before
<1>5. \A r \in Refs \ work'[s].committed : store'[r] = work'[s].held[r]
  BY <1>1, <1>3, SavedFacts
<1>6. Progress(s)'
  BY <1>1, <1>3, <1>4, <1>5, BareKept, SavedFacts DEF Progress
<1> QED
  BY <1>1, <1>2, <1>6, FoundedOpen, SoundStays

\* A pruning deletes what the file no longer refers to.
LEMMA PruneKept ==
  ASSUME TypeInv, NEW s \in Services, Prune(s), Grows(s), Founded(s), Progress(s), Sound
  PROVE  Founded(s)' /\ Progress(s)' /\ Sound'
<1>1. work[s].step = "pruning" /\ ~ Idle(s) /\ UNCHANGED <<disk, draft, damaged>>
  BY DEF Prune, Idle
<1>0. bare \subseteq bare'
  BY <1>1, BareKept
<1>2. /\ After(s) /\ work[s].todo \subseteq Obsolete(draft[s]) \ work[s].keep
      /\ work[s].previous = draft[s].revision
      /\ damaged \/ RefsOf(draft[s].base) \subseteq Held(work[s].held) \cup bare
      /\ work[s].broken \/ \A ref \in Refs :
            store[ref] = IF ref \in work[s].todo THEN work[s].held[ref]
                         ELSE AfterApply(draft[s], work[s])[ref]
  BY <1>1 DEF Progress, Steps
<1>3. work[s] \in Works
  BY TypesOf DEF WorkOK
<1>4. PICK ref \in work[s].todo :
       \/ /\ store' = Stored(store, ref, NoSecret)
          /\ work' = [work EXCEPT ![s].todo = @ \ {ref}]
       \/ /\ work' = [work EXCEPT ![s].todo = {}, ![s].broken = TRUE]
          /\ UNCHANGED store
  BY DEF Prune
<1>5. ref \in Obsolete(draft[s]) \ work[s].keep /\ ref \in Refs
  BY <1>2, ObsoleteType
<1>6. CASE store' = Stored(store, ref, NoSecret) /\ work' = [work EXCEPT ![s].todo = @ \ {ref}]
  <2>1. /\ work'[s].step = "pruning" /\ work'[s].todo = work[s].todo \ {ref}
        /\ work'[s].keep = work[s].keep /\ work'[s].previous = work[s].previous
        /\ work'[s].held = work[s].held /\ work'[s].broken = work[s].broken
    BY <1>1, <1>3, <1>6, TypesOf DEF Works
  <2>2. AfterApply(draft[s], work'[s]) = AfterApply(draft[s], work[s])
    BY <2>1 DEF AfterApply
  <2>3. AfterApply(draft[s], work[s])[ref] = NoSecret
    BY <1>5 DEF AfterApply, Obsolete, Held
  <2>4. store' = [r \in Refs |-> IF r = ref THEN NoSecret ELSE store[r]]
    BY <1>5, <1>6, StoredAt
  <2>5. work'[s].broken \/ \A r \in Refs :
            store'[r] = IF r \in work'[s].todo THEN work'[s].held[r]
                        ELSE AfterApply(draft[s], work'[s])[r]
    BY <1>2, <2>1, <2>2, <2>3, <2>4
  <2>6. Progress(s)'
    BY <1>0, <1>1, <1>2, <2>1, <2>5 DEF Progress, After
  <2>7. disk.content = draft[s].pending
    BY <1>2 DEF After
  <2>8. Held(store') = Held(store) \ {ref}
    BY <1>5, <1>6, HeldWithout DEF TypeInv, ConfigTypeOK
  <2>9. Sound'
    BY <1>0, <1>1, <1>5, <2>7, <2>8 DEF Sound, Obsolete
  <2> QED
    BY <1>1, <2>6, <2>9, FoundedOpen
<1>7. CASE work' = [work EXCEPT ![s].todo = {}, ![s].broken = TRUE] /\ UNCHANGED store
  <2>1. /\ work'[s].step = "pruning" /\ work'[s].todo = {}
        /\ work'[s].keep = work[s].keep /\ work'[s].previous = work[s].previous
        /\ work'[s].held = work[s].held /\ work'[s].broken
    BY <1>1, <1>3, <1>7, TypesOf DEF Works
  <2>2. Progress(s)'
    BY <1>0, <1>1, <1>2, <2>1 DEF Progress, After
  <2> QED
    BY <1>1, <1>7, <2>2, FoundedOpen, SoundStays
<1> QED
  BY <1>4, <1>6, <1>7

\* A rollback deletes what was free before the Apply: the file as it was refers to it
\* only without a secret.
LEMMA DiscardKept ==
  ASSUME TypeInv, NEW s \in Services, Discard(s), Grows(s), Founded(s), Progress(s), Sound
  PROVE  Founded(s)' /\ Progress(s)' /\ Sound'
<1>1. work[s].step = "discarding" /\ ~ Idle(s) /\ UNCHANGED <<disk, draft, damaged>>
  BY DEF Discard, Idle
<1>0. bare \subseteq bare'
  BY <1>1, BareKept
<1>2. /\ Before(s) \/ (work[s].broken /\ damaged)
      /\ NewTo(s, work[s].committed)
      /\ work[s].broken \/ \A r \in Refs \ work[s].committed : store[r] = work[s].held[r]
      /\ work[s].previous = draft[s].revision
      /\ damaged \/ RefsOf(draft[s].base) \subseteq Held(work[s].held) \cup bare
  BY <1>1 DEF Progress, Steps
<1>3. work[s] \in Works
  BY TypesOf DEF WorkOK
<1>4. PICK ref \in work[s].committed, ok \in BOOLEAN :
       /\ work' = [work EXCEPT ![s].committed = @ \ {ref}, ![s].broken = @ \/ ~ok]
       /\ store' = IF ok THEN Stored(store, ref, NoSecret) ELSE store
  BY DEF Discard
<1>5. ref \in Refs /\ work[s].held[ref] = NoSecret
  BY <1>2, <1>3 DEF Works, NewTo
<1>6. /\ work'[s].step = "discarding" /\ work'[s].committed = work[s].committed \ {ref}
      /\ work'[s].previous = work[s].previous /\ work'[s].held = work[s].held
  BY <1>1, <1>3, <1>4, TypesOf DEF Works
<1>7. work'[s].broken <=> work[s].broken \/ ~ ok
  <2>1. work'[s].broken = (work[s].broken \/ ~ ok)
    BY <1>3, <1>4, TypesOf DEF Works
  <2> QED
    BY <2>1
<1>8. ok => store' = [r \in Refs |-> IF r = ref THEN NoSecret ELSE store[r]]
  BY <1>4, <1>5, StoredAt
<1>9. Before(s)' \/ (work'[s].broken /\ damaged')
  BY <1>1, <1>2, <1>6, <1>7 DEF Before
<1>10. work'[s].broken \/ \A r \in Refs \ work'[s].committed : store'[r] = work'[s].held[r]
  BY <1>2, <1>5, <1>6, <1>7, <1>8
<1>11. NewTo(s, work[s].committed \ {ref})'
  BY <1>2, <1>6 DEF NewTo
<1>12. Progress(s)'
  BY <1>0, <1>1, <1>2, <1>6, <1>9, <1>10, <1>11 DEF Progress
<1>13. Sound'
  <2>1. CASE damaged
    BY <1>1, <2>1 DEF Sound
  <2>2. CASE ~ damaged /\ ok
    <3>1. disk.content = draft[s].base
      BY <1>1, <1>2, <2>2, FoundedOpen DEF Before
    <3>2. ref \notin RefsOf(disk.content) \ bare
      BY <1>2, <1>5, <2>2, <3>1 DEF Held
    <3>3. Held(store') = Held(store) \ {ref}
      BY <1>4, <1>5, <2>2, HeldWithout DEF TypeInv, ConfigTypeOK
    <3> QED
      BY <1>0, <1>1, <2>2, <3>2, <3>3 DEF Sound
  <2>3. CASE ~ ok
    BY <1>1, <1>4, <2>3, SoundStays
  <2> QED
    BY <2>1, <2>2, <2>3
<1> QED
  BY <1>1, <1>12, <1>13, FoundedOpen
-----------------------------------------------------------------------------
(* The invariant. *)

LEMMA OwnKept ==
  ASSUME TypeInv, NEW s \in Services, ServiceStep(s), Grows(s), Founded(s), Progress(s), Sound
  PROVE  Founded(s)' /\ Progress(s)' /\ Sound'
BY LoadBaseKept, ReadRevisionKept, EditKept, StartApplyKept, ReadPreviousKept, StoreSecretKept,
   SaveConfigKept, RestartKept, VerifyKept, PruneKept, CompleteKept, RestoreKept, RecoverKept,
   DiscardKept, CrashKept DEF ServiceStep

LEMMA ConfigInvInit == ConfigInit => ConfigInv
<1> SUFFICES ASSUME ConfigInit PROVE ConfigInv
  OBVIOUS
<1>1. \A s \in Services : draft[s] = NoDraft /\ Idle(s)
  BY DEF ConfigInit, Idle, NoWork
<1>2. Apart
  BY <1>1, IdleProgress DEF Apart, Overlap, BusyOn, Founded, NoDraft
<1>3. Sound
  <2>1. PICK v \in Names, value \in Values, providers \in SUBSET Providers, exists \in BOOLEAN :
         LET content == [p \in Providers |->
               IF p \in providers THEN [state |-> "enabled", version |-> v] ELSE Absent]
         IN  /\ disk = [exists |-> exists, content |-> content]
             /\ store = [ref \in Refs |-> IF ref \in RefsOf(content) THEN value ELSE NoSecret]
    BY DEF ConfigInit
  <2>2. store = [ref \in Refs |-> IF ref \in RefsOf(disk.content) THEN value ELSE NoSecret]
    BY <2>1
  <2>3. RefsOf(disk.content) \subseteq Refs
    BY TypeInit, RefsType DEF TypeInv, ConfigTypeOK, Files
  <2> QED
    BY <2>2, <2>3, ConfigAssumption DEF Sound, Held
<1> QED
  BY <1>2, <1>3, TypeInit DEF ConfigInv, RefsResolve, Sound

LEMMA ConfigInvStep == ConfigInv /\ [ConfigNext]_configVars => ConfigInv'
<1> SUFFICES ASSUME ConfigInv, [ConfigNext]_configVars
             PROVE  ConfigInv'
  OBVIOUS
<1>1. TypeInv /\ TypeInv'
  BY TypeStep DEF ConfigInv
<1>2. CASE UNCHANGED configVars
  <2>1. /\ draft' = draft /\ work' = work /\ disk' = disk /\ store' = store
        /\ damaged' = damaged /\ overlapped' = overlapped /\ bare' = bare
    BY <1>2 DEF configVars
  <2>2. ASSUME NEW s \in Services, Founded(s), Progress(s)
        PROVE  Founded(s)' /\ Progress(s)'
    <3>1. Founded(s)'
      BY <2>1, <2>2 DEF Founded, Idle, Web
    <3>2. Progress(s)'
      BY <2>1, <2>2 DEF Progress, Before, After, Candidates, NewTo, Committed
    <3> QED
      BY <3>1, <3>2
  <2>3. Overlap' = Overlap
    BY <2>1 DEF Overlap, BusyOn, Idle
  <2> QED
    BY <1>1, <2>1, <2>2, <2>3 DEF ConfigInv, Apart, RefsResolve
<1>3. CASE ConfigNext
  <2>1. PICK s \in Services : ServiceStep(s) /\ HistoryStep(s)
    BY <1>3 DEF ConfigNext, HistoryStep
  <2>2. CASE overlapped'
    BY <1>1, <2>2 DEF ConfigInv, RefsResolve
  <2>3. CASE ~ overlapped'
    <3>1. ~ overlapped /\ ~ Overlap'
      BY <2>1, <2>3 DEF HistoryStep
    <3>2. ~ Overlap /\ (\A t \in Services : Founded(t) /\ Progress(t)) /\ Sound
      BY <3>1 DEF ConfigInv, Apart, RefsResolve, Sound
    <3>3. Founded(s)' /\ Progress(s)' /\ Sound'
      BY <1>1, <2>1, <3>2, HistoryGrows, OwnKept
    <3>4. \A t \in Services \ {s} : Founded(t)' /\ Progress(t)'
      BY <1>1, <2>1, <3>1, <3>2, HistoryGrows, OthersKept
    <3> QED
      BY <1>1, <3>1, <3>3, <3>4 DEF ConfigInv, Apart, RefsResolve, Sound
  <2> QED
    BY <2>2, <2>3
<1> QED
  BY <1>2, <1>3

THEOREM ConfigInvariant == ConfigSpec => []ConfigInv
BY ConfigInvInit, ConfigInvStep, PTL DEF ConfigSpec

\* Whatever fails, and wherever a process dies, every reference in the configuration
\* file has its secret, but for those saved when no secret was under them and none was
\* entered, as long as one service at a time works on the file and no restoration failed
\* (apply.go Apply, rollback, pruneOrphanSecrets; draft.go EditProvider).
THEOREM ReferencesResolve == ConfigSpec => []RefsResolve
<1>1. ConfigInv => RefsResolve
  BY DEF ConfigInv
<1> QED
  BY <1>1, ConfigInvariant, PTL

-----------------------------------------------------------------------------
(* What Apply promises its caller. *)

\* A service whose Apply moves is the one that took the step.
LEMMA Mover ==
  ASSUME TypeInv, [ConfigNext]_configVars, NEW s \in Services, work'[s] # work[s]
  PROVE  ServiceStep(s)
<1>1. ConfigNext
  BY DEF configVars
<1>2. PICK t \in Services : ServiceStep(t)
  BY <1>1 DEF ConfigNext
<1>3. s = t
  BY <1>2, StepTouches, TypesOf DEF Touches
<1> QED
  BY <1>2, <1>3

LEMMA Actor ==
  ASSUME ConfigInv, [ConfigNext]_configVars, NEW s \in Services, work'[s] # work[s], ~ overlapped
  PROVE  /\ TypeInv /\ ServiceStep(s) /\ Founded(s) /\ Progress(s)
BY Mover DEF ConfigInv, Apart

LEMMA EndsWith ==
  ASSUME TypeInv, NEW s \in Services, ServiceStep(s), ~ Idle(s), work'[s].step = "idle"
  PROVE  Complete(s) \/ RollBack(s) \/ Crash(s)
<1>1. /\ work[s] \in Works /\ work \in [Services -> Works] /\ draft[s].phase = "open"
      /\ work[s].step # "idle"
  BY TypesOf DEF WorkOK, Idle
<1>2. ~ LoadBase(s) /\ ~ ReadRevision(s) /\ ~ Test(s) /\ ~ StartApply(s)
  BY <1>1 DEF LoadBase, ReadRevision, Test, StartApply, Idle
<1>3. ~ Stage(s) /\ ~ Name(s) /\ ~ Toggle(s) /\ ~ Remove(s)
  BY DEF Stage, Name, Toggle, Remove, Edit
<1>4. ~ ReadPrevious(s)
  BY <1>1 DEF ReadPrevious, Works
<1>5. ~ StoreSecret(s)
  <2>1. \A ref \in work[s].todo :
          \A w \in {StoredOne(s, ref), FailedOn(s, ref), RefusedOne(s)} :
            w.step # "idle" /\ [work EXCEPT ![s] = w][s] = w
    BY <1>1 DEF StoredOne, FailedOn, RefusedOne, Works
  <2>2. StoreSecret(s) => \E ref \in work[s].todo :
          \E w \in {StoredOne(s, ref), FailedOn(s, ref), RefusedOne(s)} :
            work' = [work EXCEPT ![s] = w]
    BY StoreSecretCases
  <2> QED
    BY <2>1, <2>2
<1>6. \A keep : [work EXCEPT ![s] = Pruning(s, keep)][s].step = "pruning"
  BY <1>1 DEF Pruning, Works
<1>7. [work EXCEPT ![s].step = "restarting"][s].step = "restarting"
      /\ [work EXCEPT ![s].step = "discarding"][s].step = "discarding"
  BY <1>1 DEF Works
<1>8. ~ SaveConfig(s)
  <2>1. SaveConfig(s) =>
          \/ work' = [work EXCEPT ![s].step = "restarting"]
          \/ work' = [work EXCEPT ![s].step = "discarding"]
          \/ \E keep : work' = [work EXCEPT ![s] = Pruning(s, keep)]
    BY DEF SaveConfig
  <2> QED
    BY <1>6, <1>7, <2>1
<1>9. ~ Restart(s)
  BY <1>1 DEF Restart, Works
<1>10. ~ Verify(s)
  <2>1. Verify(s) =>
          \/ work' = [work EXCEPT ![s].step = "restoring"]
          \/ work' = [work EXCEPT ![s] = Pruning(s, {})]
    BY DEF Verify
  <2>2. [work EXCEPT ![s].step = "restoring"][s].step = "restoring"
    BY <1>1 DEF Works
  <2> QED
    BY <1>6, <2>1, <2>2
<1>11. ~ Recover(s)
  BY <1>1 DEF Recover, Works
<1>12. ~ Restore(s)
  BY <1>1 DEF Restore, Works
<1>13. ~ Prune(s)
  BY <1>1 DEF Prune, Works
<1>14. ~ Discard(s)
  <2>1. ASSUME Discard(s)
        PROVE  work'[s].step = work[s].step
    <3>1. PICK ref \in work[s].committed, ok \in BOOLEAN :
            work' = [work EXCEPT ![s].committed = @ \ {ref}, ![s].broken = @ \/ ~ok]
      BY <2>1 DEF Discard
    <3> QED
      BY <1>1, <3>1 DEF Works
  <2> QED
    BY <1>1, <2>1
<1> QED
  BY <1>2, <1>3, <1>4, <1>5, <1>8, <1>9, <1>10, <1>11, <1>12, <1>13, <1>14 DEF ServiceStep

LEMMA EndedOutcome ==
  ASSUME TypeInv, NEW s \in Services, NEW outcome, work' = Ended(s, outcome)
  PROVE  work'[s].outcome = outcome
BY TypesOf DEF Ended, NoWork

\* After "rolled back", file and secrets are those the Apply began with; after success
\* they are the draft's (apply.go Apply, rollback, ErrRollbackFailed).
THEOREM OutcomesTrue == ConfigSpec => OutcomesTell
<1>1. ASSUME ConfigInv, [ConfigNext]_configVars, NEW s \in Services,
             ~ Idle(s), work'[s].step = "idle", ~ overlapped
      PROVE  CASE work'[s].outcome = "rolled_back" -> disk = work[s].previous /\ store = work[s].held
               [] work'[s].outcome = "ok" ->
                    disk.content = draft[s].pending /\ store = AfterApply(draft[s], work[s])
               [] OTHER -> TRUE
  <2>1. TypeInv /\ ServiceStep(s) /\ Progress(s)
    BY <1>1, Actor DEF Idle
  <2>2. work[s] \in Works /\ store \in Secrets /\ work[s].held \in Secrets
    BY <2>1, TypesOf DEF TypeInv, ConfigTypeOK, WorkOK, Works
  <2>3. CASE Complete(s)
    <3>1. work[s].step = "pruning" /\ work[s].todo = {}
          /\ work'[s].outcome \in {"warning", "ok", "unread"}
          /\ (work'[s].outcome = "ok" => ~ work[s].broken)
      BY <2>1, <2>3, EndedOutcome DEF Complete
    <3>2. /\ disk.content = draft[s].pending
          /\ work[s].broken \/ \A ref \in Refs : store[ref] = AfterApply(draft[s], work[s])[ref]
      BY <2>1, <3>1 DEF Progress, After
    <3>3. ~ work[s].broken => store = AfterApply(draft[s], work[s])
      BY <2>2, <3>2 DEF AfterApply, Secrets
    <3> QED
      BY <3>1, <3>2, <3>3
  <2>4. CASE RollBack(s)
    <3>1. work[s].step = "discarding" /\ work[s].committed = {}
          /\ work'[s].outcome \in {"manual", "rolled_back"}
          /\ (work'[s].outcome = "rolled_back" => ~ work[s].broken)
      BY <2>1, <2>4, EndedOutcome DEF RollBack
    <3>2. work[s].broken \/ (disk = work[s].previous /\ \A ref \in Refs : store[ref] = work[s].held[ref])
      BY <2>1, <3>1 DEF Progress, Before
    <3>3. ~ work[s].broken => store = work[s].held
      BY <2>2, <3>2 DEF Secrets
    <3> QED
      BY <3>1, <3>2, <3>3
  <2>5. CASE Crash(s)
    <3>1. work'[s].outcome = "none"
      BY <2>1, <2>5, CrashType DEF NoWork
    <3> QED
      BY <3>1
  <2> QED
    BY <1>1, <2>1, <2>3, <2>4, <2>5, EndsWith
<1>2. ConfigInv /\ [ConfigNext]_configVars =>
        [\A s \in Services :
           ~Idle(s) /\ work'[s].step = "idle" /\ ~overlapped =>
             CASE work'[s].outcome = "rolled_back" -> disk = work[s].previous /\ store = work[s].held
               [] work'[s].outcome = "ok" ->
                    disk.content = draft[s].pending /\ store = AfterApply(draft[s], work[s])
               [] OTHER -> TRUE]_configVars
  BY <1>1
<1> QED
  BY <1>2, ConfigInvariant, PTL DEF ConfigSpec, OutcomesTell

\* What a service finds in the file as long as no other has written it since it checked
\* the revision.
Watched ==
  \A s \in Services \ raced :
    /\ work[s].step \in {"checked", "storing"} => disk = draft[s].revision
    /\ work[s].step \in {"restarting", "verifying", "restoring"} => disk.content = draft[s].pending

\* The first reading of the file, edits and tests leave a service idle.
LEMMA StaysIdle ==
  ASSUME TypeInv, NEW s \in Services,
         LoadBase(s) \/ ReadRevision(s) \/ Stage(s) \/ Name(s) \/ Toggle(s) \/ Remove(s) \/ Test(s)
  PROVE  work'[s].step = "idle"
<1>1. draft[s].phase # "open" => Idle(s)
  BY TypesOf DEF WorkOK, Idle
<1> QED
  BY <1>1 DEF LoadBase, ReadRevision, Stage, Name, Toggle, Remove, Edit, Test, Idle

\* The steps of an Apply after which there is nothing left to watch.
LEMMA Unwatched ==
  ASSUME TypeInv, NEW s \in Services,
         \/ Prune(s) \/ Complete(s) \/ Restore(s) \/ Recover(s) \/ Discard(s) \/ RollBack(s) \/ Crash(s)
  PROVE  work'[s].step \in {"idle", "pruning", "recovering", "discarding"}
<1>1. work[s] \in Works /\ work \in [Services -> Works]
  BY TypesOf DEF WorkOK
<1>2. CASE Complete(s) \/ RollBack(s) \/ Crash(s)
  BY <1>2, CompleteType, RollBackType, CrashType DEF Idle, NoWork
<1>3. CASE Prune(s)
  BY <1>1, <1>3 DEF Prune, Works
<1>4. CASE Restore(s)
  BY <1>1, <1>4 DEF Restore, Works
<1>5. CASE Recover(s)
  BY <1>1, <1>5 DEF Recover, Works
<1>6. CASE Discard(s)
  <2>1. PICK ref \in work[s].committed, ok \in BOOLEAN :
          work' = [work EXCEPT ![s].committed = @ \ {ref}, ![s].broken = @ \/ ~ok]
    BY <1>6 DEF Discard
  <2> QED
    BY <1>1, <1>6, <2>1 DEF Discard, Works
<1> QED
  BY <1>2, <1>3, <1>4, <1>5, <1>6

\* A service's own steps: the check looks at the file, and the Apply goes on from there.
LEMMA WatchedOwn ==
  ASSUME TypeInv, NEW s \in Services, ServiceStep(s), Watched, s \notin raced \/ Idle(s)
  PROVE  /\ work'[s].step \in {"checked", "storing"} => disk' = draft'[s].revision
         /\ work'[s].step \in {"restarting", "verifying", "restoring"} =>
              disk'.content = draft'[s].pending
<1>0. work[s] \in Works /\ work \in [Services -> Works] /\ draft \in [Services -> Drafts]
  BY TypesOf DEF WorkOK
<1>1. CASE \/ LoadBase(s) \/ ReadRevision(s) \/ Stage(s) \/ Name(s) \/ Toggle(s) \/ Remove(s)
           \/ Test(s) \/ Prune(s) \/ Complete(s) \/ Restore(s) \/ Recover(s) \/ Discard(s)
           \/ RollBack(s) \/ Crash(s)
  BY <1>1, StaysIdle, Unwatched
<1>2. CASE StartApply(s)
  <2>1. CASE Stale(draft[s])
    BY <1>0, <1>2, <2>1 DEF StartApply, Ended, NoWork
  <2>2. CASE ~ Stale(draft[s])
    BY <1>0, <1>2, <2>2 DEF StartApply, Stale, NoWork
  <2> QED
    BY <2>1, <2>2
<1>3. CASE ReadPrevious(s)
  BY <1>0, <1>3 DEF ReadPrevious, Idle, Watched, Works
<1>4. CASE StoreSecret(s)
  <2>1. work[s].step = "storing" /\ UNCHANGED <<disk, draft>> /\ ~ Idle(s)
    BY <1>4 DEF StoreSecret, Idle
  <2>2. \E ref \in work[s].todo : \E w \in {StoredOne(s, ref), FailedOn(s, ref), RefusedOne(s)} :
          work' = [work EXCEPT ![s] = w]
    BY <1>4, StoreSecretCases
  <2>3. work'[s].step \in {"storing", "discarding"}
    BY <1>0, <2>1, <2>2 DEF StoredOne, FailedOn, RefusedOne, Works
  <2> QED
    BY <2>1, <2>3 DEF Watched
<1>5. CASE SaveConfig(s)
  <2>1. UNCHANGED draft
    BY <1>5 DEF SaveConfig
  <2>2. CASE disk' = [exists |-> TRUE, content |-> draft[s].pending]
             /\ work' = [work EXCEPT ![s].step = "restarting"]
    BY <1>0, <2>1, <2>2 DEF Works
  <2>3. ASSUME NEW keep, work' = [work EXCEPT ![s] = Pruning(s, keep)]
        PROVE  work'[s].step = "pruning"
    BY <1>0, <2>3 DEF Pruning, Works
  <2>4. CASE work' = [work EXCEPT ![s].step = "discarding"]
    BY <1>0, <2>4 DEF Works
  <2> QED
    BY <1>5, <2>2, <2>3, <2>4 DEF SaveConfig
<1>6. CASE Restart(s)
  BY <1>0, <1>6 DEF Restart, Idle, Watched, Works
<1>7. CASE Verify(s)
  <2>1. UNCHANGED <<disk, draft>> /\ work[s].step = "verifying" /\ ~ Idle(s)
    BY <1>7 DEF Verify, Idle
  <2>2. CASE work' = [work EXCEPT ![s] = Pruning(s, {})]
    BY <1>0, <2>2 DEF Pruning, Works
  <2>3. CASE work' = [work EXCEPT ![s].step = "restoring"]
    BY <1>0, <2>1, <2>3 DEF Watched, Works
  <2> QED
    BY <1>7, <2>2, <2>3 DEF Verify
<1> QED
  BY <1>1, <1>2, <1>3, <1>4, <1>5, <1>6, <1>7 DEF ServiceStep

LEMMA WatchedStep == TypeInv /\ Watched /\ [ConfigNext]_configVars => Watched'
<1> SUFFICES ASSUME TypeInv, Watched, [ConfigNext]_configVars
             PROVE  Watched'
  OBVIOUS
<1>1. CASE UNCHANGED configVars
  BY <1>1 DEF configVars, Watched
<1>2. CASE ConfigNext
  <2>1. PICK t \in Services : ServiceStep(t) /\ HistoryStep(t)
    BY <1>2 DEF ConfigNext, HistoryStep
  <2>2. ASSUME NEW s \in Services \ raced'
        PROVE  /\ work'[s].step \in {"checked", "storing"} => disk' = draft'[s].revision
               /\ work'[s].step \in {"restarting", "verifying", "restoring"} =>
                    disk'.content = draft'[s].pending
    <3>1. CASE s = t
      <4>1. s \notin raced \/ Idle(s)'
        BY <2>1, <2>2 DEF HistoryStep
      <4> QED
        BY <2>1, <3>1, <4>1, WatchedOwn DEF Idle
    <3>2. CASE s # t
      <4>1. draft'[s] = draft[s] /\ work'[s] = work[s]
        BY <2>1, <3>2, StepTouches, TypesOf DEF Touches
      <4>2. CASE Idle(s)'
        BY <4>2 DEF Idle
      <4>3. CASE ~ Idle(s)'
        <5>1. s \notin raced /\ (Idle(s) \/ disk' = disk)
          BY <2>1, <2>2, <3>2, <4>3 DEF HistoryStep
        <5> QED
          BY <4>1, <4>3, <5>1 DEF Watched, Idle
      <4> QED
        BY <4>2, <4>3
    <3> QED
      BY <3>1, <3>2
  <2> QED
    BY <2>2 DEF Watched
<1> QED
  BY <1>1, <1>2

\* However many Applies are under way, one replaces only the content its draft was made
\* from, and its rollback only what it saved, unless another service wrote the file
\* since the revision check, or between the two readings of OpenDraft: in these two
\* windows the code overwrites the other's change (apply.go Apply,
\* restorePreviousConfig; draft.go OpenDraft).
THEOREM NoUpdateLost == ConfigSpec => NoLostUpdate
<1>1. ConfigInit => TypeInv /\ Watched
  <2>1. ConfigInit => \A s \in Services : work[s].step = "idle"
    BY DEF ConfigInit, NoWork
  <2> QED
    BY <2>1, TypeInit DEF Watched
<1>2. ASSUME TypeInv, Watched, [ConfigNext]_configVars, NEW s \in Services \ raced,
             ~ Torn(draft[s]), disk' # disk, work'[s] # work[s]
      PROVE  disk.content = IF work[s].step = "restoring" THEN draft[s].pending ELSE draft[s].base
  <2>1. ServiceStep(s)
    BY <1>2, Mover
  <2>2. CASE SaveConfig(s)
    BY <1>2, <2>2 DEF SaveConfig, Watched, Torn
  <2>3. CASE Restore(s)
    BY <1>2, <2>3 DEF Restore, Watched
  <2> QED
    BY <1>2, <2>1, <2>2, <2>3
       DEF ServiceStep, LoadBase, ReadRevision, Stage, Name, Toggle, Remove, Edit, Test, StartApply,
           ReadPrevious, StoreSecret, Restart, Verify, Prune, Complete, Recover, Discard, RollBack, Crash
<1>3. TypeInv /\ Watched /\ [ConfigNext]_configVars =>
        [\A s \in Services \ raced :
           ~Torn(draft[s]) /\ disk' # disk /\ work'[s] # work[s] =>
             disk.content = IF work[s].step = "restoring" THEN draft[s].pending
                                                          ELSE draft[s].base]_configVars
  BY <1>2
<1> QED
  BY <1>1, <1>3, TypeStep, WatchedStep, PTL DEF ConfigSpec, NoLostUpdate

\* A candidate the web administration puts to use is the secret that passed the test, in
\* the entry that is saved; where none was entered, the entry passed, with what was
\* stored under its reference at the time.  One service at a time is at work on the file
\* (draft.go validateRequiredTests, providerFingerprint).
THEOREM OnlyTestedRuns == ConfigSpec => TestedIsWhatRuns
<1>1. ASSUME ConfigInv, [ConfigNext]_configVars, NEW s \in WebServices, NEW p \in Providers,
             work[s].step = "storing", work'[s].step = "restarting",
             disk'.content[p].state = "enabled",
             <<p, disk'.content[p].version>> \notin RefsOf(disk.content), ~ overlapped
      PROVE  LET entry     == disk'.content[p]
                 ref       == <<p, entry.version>>
                 candidate == draft[s].overlay[ref]
             IN  /\ <<entry, candidate>> \in draft[s].tested[p]
                 /\ candidate # NoSecret => store[ref] = candidate
  <2>0. s \in Services /\ Web(s)
    BY ConfigAssumption DEF Web
  <2>1. TypeInv /\ ServiceStep(s) /\ Founded(s) /\ Progress(s)
    BY <1>1, <2>0, Actor
  <2>2. SaveConfig(s)
    <3>1. work[s] \in Works /\ work \in [Services -> Works]
      BY <2>0, <2>1, TypesOf DEF WorkOK
    <3>2. ~ StoreSecret(s)
      <4>1. \A ref \in work[s].todo :
              \A w \in {StoredOne(s, ref), FailedOn(s, ref), RefusedOne(s)} :
                w.step \in {"storing", "discarding"} /\ [work EXCEPT ![s] = w][s] = w
        BY <1>1, <2>0, <3>1 DEF StoredOne, FailedOn, RefusedOne, Works
      <4>2. StoreSecret(s) => \E ref \in work[s].todo :
              \E w \in {StoredOne(s, ref), FailedOn(s, ref), RefusedOne(s)} :
                work' = [work EXCEPT ![s] = w]
        BY <2>0, <2>1, StoreSecretCases
      <4> QED
        BY <1>1, <4>1, <4>2
    <3>3. ~ Crash(s)
      BY <1>1, <2>0, <2>1, CrashType DEF NoWork
    <3> QED
      BY <1>1, <2>0, <2>1, <3>2, <3>3
         DEF ServiceStep, LoadBase, ReadRevision, Stage, Name, Toggle, Remove, Edit, Test, StartApply,
             Idle, ReadPrevious, Restart, Verify, Prune, Complete, Restore, Recover, Discard, RollBack
  <2>3. /\ Before(s) /\ work[s].committed = Candidates(s)
        /\ store = Committed(s, work[s].committed) /\ work[s].previous = draft[s].revision
    <3>1. work[s].todo = {}
      BY <2>2 DEF SaveConfig
    <3>2. work[s].committed \subseteq Candidates(s)
      BY <2>0, <2>1, TypesOf DEF WorkOK, Candidates
    <3> QED
      BY <1>1, <2>1, <3>1, <3>2 DEF Progress, Steps
  <2>4. disk.content = draft[s].base
    BY <1>1, <2>0, <2>1, <2>3, FoundedOpen DEF Before, Idle
  <2>5. disk'.content = draft[s].pending
    <3>1. work[s] \in Works /\ work \in [Services -> Works]
      BY <2>0, <2>1, TypesOf DEF WorkOK
    <3>2. work' # [work EXCEPT ![s].step = "discarding"]
      BY <1>1, <2>0, <3>1 DEF Works
    <3> QED
      BY <2>2, <3>2 DEF SaveConfig
  <2> DEFINE d == draft[s]
             ref == <<p, d.pending[p].version>>
  <2>6. d.pending[p].state = "enabled" /\ ref \notin RefsOf(d.base)
    BY <1>1, <2>4, <2>5
  <2>7. NeedsTest(d, p)
    BY <2>6 DEF NeedsTest, RefsOf
  <2>8. Fingerprint(d, p) \in d.tested[p]
    BY <1>1, <2>0, <2>1, <2>7 DEF Founded, Idle, Tested
  <2>9. ref \in Refs
    BY <2>0, <2>1, TypesOf DEF Configs, Entries, Refs
  <2>10. d.overlay[ref] # NoSecret => store[ref] = d.overlay[ref]
    BY <2>3, <2>9 DEF Committed, Candidates, Held
  <2> QED
    BY <2>5, <2>8, <2>10 DEF Fingerprint
<1>2. ConfigInv /\ [ConfigNext]_configVars =>
        [\A s \in WebServices, p \in Providers :
           LET entry     == disk'.content[p]
               ref       == <<p, entry.version>>
               candidate == draft[s].overlay[ref]
           IN  work[s].step = "storing" /\ work'[s].step = "restarting"
               /\ entry.state = "enabled" /\ ref \notin RefsOf(disk.content) /\ ~overlapped =>
                 /\ <<entry, candidate>> \in draft[s].tested[p]
                 /\ candidate # NoSecret => store[ref] = candidate]_configVars
  BY <1>1
<1> QED
  BY <1>2, ConfigInvariant, PTL DEF ConfigSpec, TestedIsWhatRuns

=============================================================================
