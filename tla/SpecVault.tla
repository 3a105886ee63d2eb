------------------------------- MODULE SpecVault -------------------------------
(***************************************************************************)
(* What the firm has authored about one class of its output, from the     *)
(* vault to the seat (establish_intake, spec_applier, spec_manifest).      *)
(*                                                                         *)
(* The vault is one object.  Three write it or read it, each a process of  *)
(* its own and none with a lock: the portal writes whole objects; the      *)
(* intake reads the object, merges one run's change into it, copies what   *)
(* it read to the recovery key, and writes the merge; the applier polls    *)
(* the object's tag, pulls it, and installs it on the seat, bodies first   *)
(* and the manifest last.  A gate takes a spec only when its file is what  *)
(* the manifest says.                                                      *)
(*                                                                         *)
(* A digest or a tag is the object it is of.                               *)
(***************************************************************************)
EXTENDS Naturals, Sequences

CONSTANTS Props,             \* the properties of the class: voice, format
          Bodies, NoBody,    \* what is distilled from documents
          Sentences,         \* what the firm said: standing adjustments
          Weight, Ceiling,   \* the size of a body; the room of a spec
          Runs, Asked,       \* the runs the broker spools, and what each asks
          Authorings,        \* the objects the portal may write
          MaxWrites,         \* bound: objects written from outside
          MaxFaults          \* bound: faults and restarts

Entries == [body : Bodies \cup {NoBody}, sound : BOOLEAN, said : Seq(Sentences)]
Nothing == [body |-> NoBody, sound |-> TRUE, said |-> << >>]

Absent  == [kind |-> "absent"]
Garbled == [kind |-> "garbled"]
Documents == [kind : {"document"}, specs : [Props -> Entries]]
Objects == {Absent, Garbled} \cup Documents

ASSUME VaultAssumption ==
    /\ NoBody \notin Bodies
    /\ Weight \in [Bodies \cup {NoBody} -> Nat] /\ Ceiling \in Nat
    /\ Authorings \subseteq Objects
    /\ Asked \in [Runs -> [prop : Props, body : Bodies] \cup [prop : Props, sentence : Sentences]]
    /\ MaxWrites \in Nat /\ MaxFaults \in Nat

VARIABLES
    vault,    \* output-classes.json
    previous, \* output-classes.previous.json
    ready,    \* the runs in the spool: the broker's, there from the start and taken at any time
    told,     \* the result file of each run
    intake,   \* the run in hand, and where the intake is with it
    files,    \* the installed bodies
    manifest, \* what the manifest names: the object it was computed from
    applier,  \* where the applier is in a tick
    handled,  \* _last_etag
    writes, faults, \* bounded counters
    stale,    \* history: the vault was written since the intake read it
    raced,    \* history: the tag handled is of another object than was pulled
    cut       \* history: an install was cut short, and none has completed since

vars == << vault, previous, ready, told, intake, files, manifest, applier, handled,
           writes, faults, stale, raced, cut >>
intakeVars == << ready, told, intake >>
applierVars == << files, manifest, applier, handled, raced, cut >>

Resting == [pc |-> "idle"]

Init == /\ vault = Absent /\ previous = Absent
        /\ ready = Runs /\ told = [r \in Runs |-> "nothing"] /\ intake = Resting
        /\ files = [p \in Props |-> Nothing] /\ manifest = Absent
        /\ applier = Resting /\ handled = Absent
        /\ writes = 0 /\ faults = 0
        /\ stale = FALSE /\ raced = FALSE /\ cut = FALSE

Fault == faults < MaxFaults /\ faults' = faults + 1

------------------------------------------------------------------------------
(***************************************************************************)
(* Documents.                                                              *)
(***************************************************************************)
Authored(o) == IF o.kind = "document" THEN o.specs ELSE [p \in Props |-> Nothing]

Named(o) == {p \in Props : Authored(o)[p] # Nothing}

\* The rendered size, and the number of adjustments with it.
Fits(e) == Weight[e.body] + Len(e.said) <= Ceiling

Distinct(said) == \A i, j \in DOMAIN said : said[i] = said[j] => i = j

\* parse_and_verify: all of it or none of it.
Accepted(o) ==
    /\ o.kind = "document" /\ Named(o) # {}
    /\ \A p \in Named(o) : LET e == Authored(o)[p]
                           IN  e.sound /\ Fits(e) /\ Distinct(e.said)

------------------------------------------------------------------------------
(***************************************************************************)
(* From outside: the portal, and an operator who puts the recovery copy    *)
(* back.                                                                   *)
(***************************************************************************)
Arrives(o) == /\ writes < MaxWrites /\ writes' = writes + 1
              /\ o # vault /\ vault' = o
              /\ stale' = (intake.pc \in {"copy", "put"})
              /\ UNCHANGED << previous, intakeVars, applierVars, faults >>

PortalWrites == \E o \in Authorings : Arrives(o)

PutBack == previous # Absent /\ Arrives(previous)

------------------------------------------------------------------------------
(***************************************************************************)
(* The intake.                                                             *)
(***************************************************************************)
Intake(c) == /\ intake' = c
             /\ UNCHANGED << ready, told, applierVars, writes >>

\* Every way out of a run goes through its result.
Answer(status) == Intake([pc |-> "result", run |-> intake.run, status |-> status])

\* process_run takes a ready run, and may turn it away before it reads the vault:
\* a check or a gate rejects it, a compiler is missing, something raises.
Start(r) ==
    /\ intake.pc = "idle" /\ r \in ready
    /\ \/ Intake([pc |-> "get", run |-> r])
       \/ \E status \in {"rejected", "error"} :
              Intake([pc |-> "result", run |-> r, status |-> status])
    /\ UNCHANGED << vault, previous, faults, stale >>

IsReplace(r) == "body" \in DOMAIN Asked[r]

\* Mutant of ReplaceBody: a body replaces the whole property.
ReplaceEntry(e, body) == [body |-> body, sound |-> TRUE, said |-> << >>]

\* _replace_body keeps the standing adjustments and asks nothing of the size.
ReplaceBody(e, body) == [body |-> body, sound |-> TRUE, said |-> e.said]

AlreadySaid(e, s) == \E i \in DOMAIN e.said : e.said[i] = s

\* Mutant of AppendSentence: no look at what is there.
AppendAgain(e, s) == [e EXCEPT !.said = Append(@, s)]

\* _append: once, whatever the run is taken for.
AppendSentence(e, s) ==
    IF AlreadySaid(e, s) THEN e ELSE [e EXCEPT !.said = Append(@, s)]

Merged(r, e) == IF IsReplace(r) THEN ReplaceBody(e, Asked[r].body)
                ELSE AppendSentence(e, Asked[r].sentence)

\* Only an adjustment that adds something is measured.
Refuses(r, e) == /\ ~IsReplace(r) /\ ~AlreadySaid(e, Asked[r].sentence)
                 /\ ~Fits(AppendSentence(e, Asked[r].sentence))

\* Read and merge.  An object nobody can parse contributes nothing.
Get ==
    /\ intake.pc = "get"
    /\ LET r == intake.run
           p == Asked[r].prop
           e == Authored(vault)[p]
           put == [kind |-> "document", specs |-> [Authored(vault) EXCEPT ![p] = Merged(r, e)]]
       IN  IF Refuses(r, e) THEN Answer("rejected")
           ELSE IF vault = Absent THEN Intake([pc |-> "put", run |-> r, put |-> put])
           ELSE Intake([pc |-> "copy", run |-> r, put |-> put, read |-> vault])
    /\ stale' = FALSE
    /\ UNCHANGED << vault, previous, faults >>

\* The generation before, to its one key.
Copy ==
    /\ intake.pc = "copy"
    /\ previous' = intake.read
    /\ Intake([pc |-> "put", run |-> intake.run, put |-> intake.put])
    /\ UNCHANGED << vault, faults, stale >>

Put ==
    /\ intake.pc = "put"
    /\ vault' = intake.put
    /\ Intake([intake EXCEPT !.pc = "back"])
    /\ stale' = FALSE
    /\ UNCHANGED << previous, faults >>

ReadBack ==
    /\ intake.pc = "back"
    /\ IF vault = intake.put THEN Intake([intake EXCEPT !.pc = "converge"])
       ELSE Answer("error")
    /\ UNCHANGED << vault, previous, faults, stale >>

\* Mutant of CallFails: the recovery copy is best effort.
CallFailsOpen ==
    /\ Fault /\ intake.pc \in {"get", "copy", "put", "back"}
    /\ UNCHANGED previous
    /\ vault' \in {vault} \cup (IF intake.pc = "put" THEN {intake.put} ELSE {})
    /\ IF intake.pc = "copy" THEN Intake([pc |-> "put", run |-> intake.run, put |-> intake.put])
       ELSE Answer("error")
    /\ UNCHANGED stale

\* A call to the vault raises, before or after it took effect: no further step.
CallFails ==
    /\ Fault /\ intake.pc \in {"get", "copy", "put", "back"}
    /\ previous' \in {previous} \cup (IF intake.pc = "copy" THEN {intake.read} ELSE {})
    /\ vault' \in {vault} \cup (IF intake.pc = "put" THEN {intake.put} ELSE {})
    /\ Answer("error")
    /\ stale' = FALSE

\* The manifest names the object written, or the wait is over.
Converged ==
    /\ intake.pc = "converge" /\ manifest = intake.put
    /\ Answer("installed")
    /\ UNCHANGED << vault, previous, faults, stale >>

WaitedOut ==
    /\ intake.pc = "converge" /\ manifest # intake.put
    /\ Answer("accepted_pending_install")
    /\ UNCHANGED << vault, previous, faults, stale >>

WriteResult ==
    /\ intake.pc = "result"
    /\ told' = [told EXCEPT ![intake.run] = intake.status]
    /\ intake' = [pc |-> "purge", run |-> intake.run]
    /\ UNCHANGED << vault, previous, ready, applierVars, writes, faults, stale >>

Purge ==
    /\ intake.pc = "purge"
    /\ ready' = ready \ {intake.run} /\ intake' = Resting
    /\ UNCHANGED << vault, previous, told, applierVars, writes, faults, stale >>

\* The result cannot be written, the run cannot be removed, or the daemon is
\* killed: the run is in the spool and the next tick takes it again.
IntakeStops ==
    /\ Fault /\ intake.pc # "idle"
    /\ Intake(Resting)
    /\ stale' = FALSE
    /\ UNCHANGED << vault, previous >>

------------------------------------------------------------------------------
(***************************************************************************)
(* The applier.                                                            *)
(***************************************************************************)
Unmoved == UNCHANGED << vault, previous, intakeVars, writes, stale >>

\* run_once: a tag that is not the last one handled.  No tag, no tick.
HeadEtag ==
    /\ applier.pc = "idle" /\ vault # Absent /\ vault # handled
    /\ applier' = [pc |-> "pull", tag |-> vault]
    /\ Unmoved /\ UNCHANGED << files, manifest, handled, faults, raced, cut >>

\* apply: the object as it is now.  What is installed already, or is refused,
\* is handled; a missing object is not.
Pull ==
    /\ applier.pc = "pull"
    /\ \/ /\ vault = Absent
          /\ applier' = Resting /\ UNCHANGED << handled, raced >>
       \/ /\ vault # Absent /\ (vault = manifest \/ ~Accepted(vault))
          /\ applier' = Resting
          /\ handled' = applier.tag /\ raced' = (vault # applier.tag)
       \/ /\ vault # manifest /\ Accepted(vault)
          /\ applier' = [pc |-> "install", tag |-> applier.tag, doc |-> vault, todo |-> Named(vault)]
          /\ UNCHANGED << handled, raced >>
    /\ Unmoved /\ UNCHANGED << files, manifest, faults, cut >>

WriteBody(p) ==
    /\ applier.pc = "install" /\ p \in applier.todo
    /\ files' = [files EXCEPT ![p] = Authored(applier.doc)[p]]
    /\ applier' = [applier EXCEPT !.todo = @ \ {p}]
    /\ Unmoved /\ UNCHANGED << manifest, handled, faults, raced, cut >>

\* Mutant of Commit: the manifest without waiting for the bodies.
CommitEarly ==
    /\ applier.pc = "install"
    /\ manifest' = applier.doc /\ cut' = FALSE
    /\ applier' = [pc |-> "prune", tag |-> applier.tag]
    /\ Unmoved /\ UNCHANGED << files, handled, faults, raced >>

\* The manifest is the commit point.
Commit ==
    /\ applier.pc = "install" /\ applier.todo = {}
    /\ manifest' = applier.doc /\ cut' = FALSE
    /\ applier' = [pc |-> "prune", tag |-> applier.tag]
    /\ Unmoved /\ UNCHANGED << files, handled, faults, raced >>

\* _prune, where what cannot be removed is left; then the object is handled.
Prune ==
    /\ applier.pc = "prune"
    /\ \/ /\ files' = [p \in Props |-> IF p \in Named(manifest) THEN files[p] ELSE Nothing]
          /\ UNCHANGED faults
       \/ Fault /\ UNCHANGED files
    /\ handled' = applier.tag /\ raced' = (manifest # applier.tag)
    /\ applier' = Resting
    /\ Unmoved /\ UNCHANGED << manifest, cut >>

\* Mutant of TickFails: an object that failed is handled.
TickFailsHandled ==
    /\ Fault /\ applier.pc \in {"pull", "install"}
    /\ applier' = Resting /\ handled' = applier.tag
    /\ cut' = (cut \/ applier.pc = "install")
    /\ Unmoved /\ UNCHANGED << files, manifest, raced >>

\* The pull or a write raises: the tag is not kept, the next tick tries again.
TickFails ==
    /\ Fault /\ applier.pc \in {"pull", "install"}
    /\ applier' = Resting
    /\ cut' = (cut \/ applier.pc = "install")
    /\ Unmoved /\ UNCHANGED << files, manifest, handled, raced >>

\* The process starts again, at a boot with a fetch that keeps no tag.
ApplierRestarts ==
    /\ Fault
    /\ handled' = Absent
    /\ applier' \in {Resting, [pc |-> "pull", tag |-> Absent]}
    /\ cut' = (cut \/ applier.pc = "install")
    /\ Unmoved /\ UNCHANGED << files, manifest, raced >>

------------------------------------------------------------------------------
IntakeWorks ==
    \/ \E r \in Runs : Start(r)
    \/ Get \/ Copy \/ Put \/ ReadBack
    \/ Converged \/ WaitedOut
    \/ WriteResult \/ Purge

ApplierWorks ==
    \/ HeadEtag \/ Pull
    \/ \E p \in Props : WriteBody(p)
    \/ Commit \/ Prune

Next ==
    \/ PortalWrites \/ PutBack
    \/ IntakeWorks \/ CallFails \/ IntakeStops
    \/ ApplierWorks \/ TickFails \/ ApplierRestarts

Spec == Init /\ [][Next]_vars

FairSpec == Spec /\ WF_vars(IntakeWorks) /\ WF_vars(ApplierWorks)

------------------------------------------------------------------------------
Statuses == {"rejected", "error", "installed", "accepted_pending_install"}

Intakes == {Resting}
    \cup [pc : {"get", "purge"}, run : Runs]
    \cup [pc : {"copy"}, run : Runs, put : Documents, read : Objects]
    \cup [pc : {"put", "back", "converge"}, run : Runs, put : Documents]
    \cup [pc : {"result"}, run : Runs, status : Statuses]

Appliers == {Resting}
    \cup [pc : {"pull", "prune"}, tag : Objects]
    \cup [pc : {"install"}, tag : Objects, doc : Documents, todo : SUBSET Props]

\* The types of the vault, the intake, the seat and the applier.
TypeOK ==
    /\ vault \in Objects /\ previous \in Objects
    /\ ready \subseteq Runs
    /\ told \in [Runs -> {"nothing"} \cup Statuses]
    /\ intake \in Intakes
    /\ files \in [Props -> Entries] /\ manifest \in {Absent} \cup Documents
    /\ applier \in Appliers
    /\ handled \in Objects
    /\ writes \in 0..MaxWrites /\ faults \in 0..MaxFaults
    /\ stale \in BOOLEAN /\ raced \in BOOLEAN /\ cut \in BOOLEAN

\* spec_manifest.verify: the gates take a spec the manifest names, when its file
\* is what the manifest says.
Verifies(p) == files[p] = Authored(manifest)[p]

\* The specs the gates refuse as tampered with.
Mismatched == {p \in Named(manifest) : ~Verifies(p)}

\* Where the applier has handled the object in the vault, and the object is one
\* it accepts, the seat serves that object, all of it, unless the tag it kept was
\* of another object than it pulled, or an install had been cut short.
HandledIsServed ==
    applier.pc = "idle" /\ handled = vault /\ Accepted(vault) /\ ~raced
        => manifest = vault /\ (Mismatched = {} \/ cut)

\* The gates refuse a spec as tampered with only while it is being replaced, or
\* where a replacement was cut short.
RefusedOnlyMidInstall == Mismatched # {} => applier.pc = "install" \/ cut

\* However often a run is taken, the firm's sentence stands in a spec once.
SentenceOnce ==
    (\A o \in Authorings, p \in Props : Distinct(Authored(o)[p].said))
        => \A p \in Props : Distinct(Authored(vault)[p].said)

\* A write of the intake leaves what other runs and the portal authored: the
\* other property, the body under a sentence, the sentences under a body.
Keeps(r, old, new) ==
    \A p \in Props :
        /\ p # Asked[r].prop => new[p] = old[p]
        /\ \A i \in DOMAIN old[p].said : AlreadySaid(new[p], old[p].said[i])
        /\ ~IsReplace(r) => new[p].body = old[p].body

IntakePuts == intake.pc = "put" /\ vault' # vault /\ writes' = writes

RoutesClearNothing ==
    [][IntakePuts /\ ~stale => Keeps(intake.run, Authored(vault), Authored(vault'))]_vars

\* What the intake replaces is in the recovery copy, unless the portal wrote it
\* since the intake read the vault.
ReplacedIsKept ==
    [][IntakePuts /\ ~stale /\ vault # Absent => previous = vault]_vars

\* In the end the seat serves what is in the vault, if it can be accepted: or the
\* object changed under the applier and back, or an install of another object was
\* cut short and the object the manifest names is back.
VaultSettles ==
    <>[](Accepted(vault) =>
            \/ manifest = vault /\ (Mismatched = {} \/ cut)
            \/ raced /\ handled = vault)
===============================================================================
