---------------------------- MODULE SpecVaultProofs ----------------------------
(***************************************************************************)
(* What the applier handled is what the manifest names (Handling); a       *)
(* mismatch is of an install under way or cut short (Matching); what the   *)
(* intake is about to write is the vault's object with one run merged in,  *)
(* and its copy is kept, unless the portal wrote since (Merging); no       *)
(* object repeats a sentence (Unrepeated).                                 *)
(***************************************************************************)
EXTENDS SpecVault, SequenceTheorems, TLAPS

DistinctIn(o) == \A p \in Props : Distinct(Authored(o)[p].said)

Handling ==
    applier.pc # "prune" /\ Accepted(handled) /\ ~raced => manifest = handled

Matching ==
    /\ Mismatched # {} => applier.pc = "install" \/ cut
    /\ applier.pc = "install" =>
          \A p \in Named(applier.doc) \ applier.todo : files[p] = Authored(applier.doc)[p]

Merging ==
    /\ intake.pc \in {"copy", "put"} /\ ~stale =>
          Keeps(intake.run, Authored(vault), Authored(intake.put))
    /\ intake.pc = "copy" /\ ~stale => intake.read = vault
    /\ intake.pc = "put" /\ ~stale /\ vault # Absent => previous = vault

Unrepeated ==
    (\A o \in Authorings : DistinctIn(o)) =>
        /\ DistinctIn(vault) /\ DistinctIn(previous)
        /\ intake.pc \in {"copy", "put"} => DistinctIn(intake.put)
        /\ intake.pc = "copy" => DistinctIn(intake.read)

VaultInv == TypeOK /\ Handling /\ Matching /\ Merging /\ Unrepeated

------------------------------------------------------------------------------
LEMMA ObjectKinds ==
  /\ Absent \in Objects /\ Absent.kind = "absent" /\ Absent \notin Documents
  /\ \A o \in Objects : o.kind = "document" => o \in Documents
  /\ \A o \in Documents : o \in Objects /\ o.kind = "document" /\ o.specs \in [Props -> Entries]
  BY DEF Objects, Absent, Garbled, Documents

LEMMA NothingType ==
  /\ Nothing \in Entries /\ Distinct(Nothing.said)
  BY DEF Nothing, Entries, Distinct

LEMMA AuthoredType ==
  ASSUME NEW o \in Objects
  PROVE  Authored(o) \in [Props -> Entries] /\ Named(o) \subseteq Props
  BY ObjectKinds, NothingType DEF Authored, Named

LEMMA AskedKinds ==
  ASSUME NEW r \in Runs
  PROVE  /\ Asked[r].prop \in Props
         /\ IsReplace(r) => Asked[r].body \in Bodies
         /\ ~IsReplace(r) => Asked[r].sentence \in Sentences
  BY VaultAssumption DEF VaultAssumption, IsReplace

LEMMA AppendType ==
  ASSUME NEW e \in Entries, NEW s \in Sentences
  PROVE  /\ AppendSentence(e, s) \in Entries
         /\ AppendSentence(e, s).body = e.body
         /\ \A i \in DOMAIN e.said : AlreadySaid(AppendSentence(e, s), e.said[i])
         /\ Distinct(e.said) => Distinct(AppendSentence(e, s).said)
<1>1. CASE AlreadySaid(e, s)
  BY <1>1 DEF AppendSentence, AlreadySaid
<1>2. CASE ~AlreadySaid(e, s)
  <2> DEFINE a == AppendSentence(e, s)
             t == Append(e.said, s)
  <2>1. e.said \in Seq(Sentences)
    BY DEF Entries
  <2>2. /\ t \in Seq(Sentences) /\ Len(t) = Len(e.said) + 1
        /\ \A i \in 1..Len(e.said) : t[i] = e.said[i]
        /\ t[Len(e.said) + 1] = s
    BY <2>1, AppendProperties
  <2>3. a = [e EXCEPT !.said = t]
    BY <1>2 DEF AppendSentence
  <2>4. /\ a \in Entries /\ a.body = e.body /\ a.said = t
    BY <2>2, <2>3 DEF Entries
  <2>5. DOMAIN e.said = 1..Len(e.said) /\ DOMAIN t = 1..(Len(e.said) + 1) /\ Len(e.said) \in Nat
    BY <2>1, <2>2
  <2>6. \A i \in DOMAIN e.said : AlreadySaid(a, e.said[i])
    BY <2>2, <2>4, <2>5 DEF AlreadySaid
  <2>7. ASSUME Distinct(e.said) PROVE Distinct(t)
    <3>1. \A i \in 1..Len(e.said) : t[i] # s
      BY <1>2, <2>2, <2>5 DEF AlreadySaid
    <3>2. \A i, j \in 1..Len(e.said) : t[i] = t[j] => i = j
      BY <2>2, <2>5, <2>7 DEF Distinct
    <3>3. \A i \in DOMAIN t : i \in 1..Len(e.said) \/ i = Len(e.said) + 1
      BY <2>5
    <3>q. QED BY <3>1, <3>2, <3>3, <2>2 DEF Distinct
  <2>q. QED BY <2>4, <2>6, <2>7
<1>q. QED BY <1>1, <1>2

LEMMA MergedType ==
  ASSUME NEW r \in Runs, NEW e \in Entries
  PROVE  /\ Merged(r, e) \in Entries
         /\ ~IsReplace(r) => Merged(r, e).body = e.body
         /\ \A i \in DOMAIN e.said : AlreadySaid(Merged(r, e), e.said[i])
         /\ Distinct(e.said) => Distinct(Merged(r, e).said)
<1>1. CASE IsReplace(r)
  BY <1>1, AskedKinds DEF Merged, ReplaceBody, Entries, AlreadySaid
<1>2. CASE ~IsReplace(r)
  BY <1>2, AskedKinds, AppendType DEF Merged
<1>q. QED BY <1>1, <1>2

LEMMA IntakeKinds ==
  ASSUME NEW c \in Intakes
  PROVE  /\ c.pc # "idle" => c.run \in Runs
         /\ c.pc = "copy" => c.put \in Documents /\ c.read \in Objects
         /\ c.pc = "put" => c \in [pc : {"put"}, run : Runs, put : Documents]
         /\ c.pc \in {"put", "back", "converge"} => c.put \in Documents
         /\ c.pc = "result" => c.status \in Statuses
  BY DEF Intakes, Resting, Statuses

LEMMA ApplierKinds ==
  ASSUME NEW c \in Appliers
  PROVE  /\ c.pc \in {"pull", "prune", "install"} => c.tag \in Objects
         /\ c.pc = "install" =>
               c \in [pc : {"install"}, tag : Objects, doc : Documents, todo : SUBSET Props]
  BY DEF Appliers, Resting

\* What a run is told is a status.
LEMMA AnswerType ==
  ASSUME TypeOK, NEW s \in Statuses, Answer(s), intake.pc # "idle"
  PROVE  intake' \in Intakes /\ intake'.pc = "result"
  BY IntakeKinds DEF TypeOK, Answer, Intake, Intakes, Statuses

\* The object Get makes of what it read.
GetPut == [kind |-> "document",
           specs |-> [Authored(vault) EXCEPT ![Asked[intake.run].prop] =
                          Merged(intake.run, Authored(vault)[Asked[intake.run].prop])]]

LEMMA GetPutIs ==
  ASSUME TypeOK, intake.pc = "get"
  PROVE  /\ GetPut \in Documents
         /\ Keeps(intake.run, Authored(vault), Authored(GetPut))
         /\ DistinctIn(vault) => DistinctIn(GetPut)
<1> DEFINE r == intake.run
           p == Asked[r].prop
           a == Authored(vault)
           b == [a EXCEPT ![p] = Merged(r, a[p])]
<1>1. r \in Runs /\ p \in Props /\ a \in [Props -> Entries]
  BY IntakeKinds, AskedKinds, AuthoredType DEF TypeOK
<1>2. /\ Merged(r, a[p]) \in Entries
      /\ ~IsReplace(r) => Merged(r, a[p]).body = a[p].body
      /\ \A i \in DOMAIN a[p].said : AlreadySaid(Merged(r, a[p]), a[p].said[i])
      /\ Distinct(a[p].said) => Distinct(Merged(r, a[p]).said)
  BY <1>1, MergedType
<1>3. GetPut = [kind |-> "document", specs |-> b] /\ b \in [Props -> Entries]
  BY <1>1, <1>2 DEF GetPut
<1>4. GetPut \in Documents /\ Authored(GetPut) = b
  BY <1>3 DEF Documents, Authored
<1>5. \A q \in Props : b[q] = IF q = p THEN Merged(r, a[p]) ELSE a[q]
  BY <1>1
<1>6. \A q \in Props : \A i \in DOMAIN a[q].said : AlreadySaid(a[q], a[q].said[i])
  BY DEF AlreadySaid
<1>7. Keeps(r, a, b)
  BY <1>1, <1>2, <1>5, <1>6 DEF Keeps
<1>8. DistinctIn(vault) => \A q \in Props : Distinct(b[q].said)
  BY <1>1, <1>2, <1>5 DEF DistinctIn
<1>q. QED BY <1>4, <1>7, <1>8 DEF DistinctIn

------------------------------------------------------------------------------
LEMMA TypeStep ==
  ASSUME TypeOK, [Next]_vars
  PROVE  TypeOK'
<1> USE VaultAssumption DEF VaultAssumption
<1>1. ASSUME NEW o \in Objects, Arrives(o) PROVE TypeOK'
  BY <1>1 DEF Arrives, TypeOK, intakeVars, applierVars
<1>2. CASE PortalWrites
  BY <1>1, <1>2 DEF PortalWrites
<1>3. CASE PutBack
  BY <1>1, <1>3 DEF PutBack, TypeOK
<1>4. ASSUME NEW r \in Runs, Start(r) PROVE TypeOK'
  <2>1. intake' \in Intakes
    BY <1>4 DEF Start, Intake, Intakes, Statuses
  <2>q. QED BY <1>4, <2>1 DEF Start, Intake, TypeOK, applierVars
<1>5. CASE Get
  <2>1. CASE Refuses(intake.run, Authored(vault)[Asked[intake.run].prop])
    <3>1. Answer("rejected")
      BY <1>5, <2>1 DEF Get
    <3>2. intake' \in Intakes
      BY <1>5, <3>1, AnswerType DEF Get, Statuses
    <3>q. QED BY <1>5, <3>1, <3>2 DEF Get, Answer, Intake, TypeOK, applierVars
  <2>2. CASE ~Refuses(intake.run, Authored(vault)[Asked[intake.run].prop])
    <3>1. GetPut \in Documents /\ intake.run \in Runs /\ vault \in Objects
      BY <1>5, GetPutIs, IntakeKinds DEF Get, TypeOK
    <3>2. \/ Intake([pc |-> "put", run |-> intake.run, put |-> GetPut])
          \/ Intake([pc |-> "copy", run |-> intake.run, put |-> GetPut, read |-> vault])
      BY <1>5, <2>2 DEF Get, GetPut
    <3>3. intake' \in Intakes
      BY <3>1, <3>2 DEF Intake, Intakes
    <3>q. QED BY <1>5, <3>2, <3>3 DEF Get, Intake, TypeOK, applierVars
  <2>q. QED BY <2>1, <2>2
<1>6. CASE Copy
  <2>1. intake.run \in Runs /\ intake.put \in Documents /\ intake.read \in Objects
    BY <1>6, IntakeKinds DEF Copy, TypeOK
  <2>2. intake' \in Intakes
    BY <1>6, <2>1 DEF Copy, Intake, Intakes
  <2>q. QED BY <1>6, <2>1, <2>2 DEF Copy, Intake, TypeOK, applierVars
<1>7. CASE Put
  <2>1. intake \in [pc : {"put"}, run : Runs, put : Documents] /\ intake.put \in Objects
    BY <1>7, IntakeKinds, ObjectKinds DEF Put, TypeOK
  <2>2. intake' \in Intakes
    BY <1>7, <2>1 DEF Put, Intake, Intakes
  <2>q. QED BY <1>7, <2>1, <2>2 DEF Put, Intake, TypeOK, applierVars
<1>8. CASE ReadBack
  <2>1. CASE vault = intake.put
    <3>1. intake.run \in Runs /\ intake.put \in Documents
      BY <1>8, IntakeKinds DEF ReadBack, TypeOK
    <3>2. intake \in [pc : {"back"}, run : Runs, put : Documents]
      BY <1>8 DEF ReadBack, TypeOK, Intakes, Resting
    <3>3. intake' \in Intakes
      BY <1>8, <2>1, <3>2 DEF ReadBack, Intake, Intakes
    <3>q. QED BY <1>8, <2>1, <3>3 DEF ReadBack, Intake, TypeOK, applierVars
  <2>2. CASE vault # intake.put
    <3>1. intake' \in Intakes
      BY <1>8, <2>2, AnswerType DEF ReadBack, Statuses
    <3>q. QED BY <1>8, <2>2, <3>1 DEF ReadBack, Answer, Intake, TypeOK, applierVars
  <2>q. QED BY <2>1, <2>2
<1>9. CASE CallFails
  <2>1. intake' \in Intakes
    BY <1>9, AnswerType DEF CallFails, Statuses
  <2>2. previous' \in Objects /\ vault' \in Objects
    BY <1>9, IntakeKinds, ObjectKinds DEF CallFails, TypeOK
  <2>3. faults' \in 0..MaxFaults
    BY <1>9 DEF CallFails, Fault, TypeOK
  <2>q. QED BY <1>9, <2>1, <2>2, <2>3 DEF CallFails, Answer, Intake, TypeOK, applierVars
<1>10. CASE Converged \/ WaitedOut
  <2>1. intake' \in Intakes
    BY <1>10, AnswerType DEF Converged, WaitedOut, Statuses
  <2>q. QED BY <1>10, <2>1 DEF Converged, WaitedOut, Answer, Intake, TypeOK, applierVars
<1>11. CASE WriteResult
  <2>1. intake.run \in Runs /\ intake.status \in Statuses
    BY <1>11, IntakeKinds DEF WriteResult, TypeOK
  <2>2. intake' \in Intakes
    BY <1>11, <2>1 DEF WriteResult, Intakes
  <2>q. QED BY <1>11, <2>1, <2>2 DEF WriteResult, TypeOK, applierVars
<1>12. CASE Purge
  BY <1>12 DEF Purge, TypeOK, Intakes, applierVars
<1>13. CASE IntakeStops
  <2>1. intake' \in Intakes
    BY <1>13 DEF IntakeStops, Intake, Intakes
  <2>2. faults' \in 0..MaxFaults
    BY <1>13 DEF IntakeStops, Fault, TypeOK
  <2>q. QED BY <1>13, <2>1, <2>2 DEF IntakeStops, Intake, TypeOK, applierVars
<1>14. CASE HeadEtag
  <2>1. applier' \in Appliers
    BY <1>14 DEF HeadEtag, Appliers, TypeOK
  <2>q. QED BY <1>14, <2>1 DEF HeadEtag, Unmoved, TypeOK, intakeVars
<1>15. CASE Pull
  <2>1. applier.tag \in Objects
    BY <1>15, ApplierKinds DEF Pull, TypeOK
  <2>2. Accepted(vault) => vault \in Documents /\ Named(vault) \in SUBSET Props
    BY ObjectKinds, AuthoredType DEF Accepted, TypeOK
  <2>3. applier' \in Appliers
    BY <1>15, <2>1, <2>2 DEF Pull, Appliers
  <2>q. QED BY <1>15, <2>1, <2>3 DEF Pull, Unmoved, TypeOK, intakeVars
<1>16. ASSUME NEW p \in Props, WriteBody(p) PROVE TypeOK'
  <2>1. applier \in [pc : {"install"}, tag : Objects, doc : Documents, todo : SUBSET Props]
    BY <1>16, ApplierKinds DEF WriteBody, TypeOK
  <2>2. applier' \in [pc : {"install"}, tag : Objects, doc : Documents, todo : SUBSET Props]
    BY <1>16, <2>1 DEF WriteBody
  <2>3. applier' \in Appliers
    BY <2>2 DEF Appliers
  <2>4. files' \in [Props -> Entries]
    BY <1>16, <2>1, ObjectKinds, AuthoredType DEF WriteBody, TypeOK
  <2>q. QED BY <1>16, <2>3, <2>4 DEF WriteBody, Unmoved, TypeOK, intakeVars
<1>17. CASE Commit
  <2>1. applier.tag \in Objects /\ applier.doc \in Documents
    BY <1>17, ApplierKinds DEF Commit, TypeOK
  <2>2. applier' \in Appliers
    BY <1>17, <2>1 DEF Commit, Appliers
  <2>q. QED BY <1>17, <2>1, <2>2 DEF Commit, Unmoved, TypeOK, intakeVars
<1>18. CASE Prune
  <2>1. applier.tag \in Objects
    BY <1>18, ApplierKinds DEF Prune, TypeOK
  <2>2. files' \in [Props -> Entries]
    BY <1>18, NothingType DEF Prune, TypeOK
  <2>3. faults' \in 0..MaxFaults
    BY <1>18 DEF Prune, Fault, TypeOK
  <2>q. QED BY <1>18, <2>1, <2>2, <2>3 DEF Prune, Unmoved, TypeOK, Appliers, intakeVars
<1>19. CASE TickFails
  BY <1>19 DEF TickFails, Fault, Unmoved, TypeOK, Appliers, intakeVars
<1>20. CASE ApplierRestarts
  <2>1. applier' \in Appliers
    BY <1>20, ObjectKinds DEF ApplierRestarts, Appliers
  <2>q. QED BY <1>20, <2>1, ObjectKinds DEF ApplierRestarts, Fault, Unmoved, TypeOK, intakeVars
<1>21. CASE UNCHANGED vars
  BY <1>21 DEF vars, TypeOK, intakeVars, applierVars
<1>q. QED
  BY <1>2, <1>3, <1>4, <1>5, <1>6, <1>7, <1>8, <1>9, <1>10, <1>11, <1>12, <1>13, <1>14,
     <1>15, <1>16, <1>17, <1>18, <1>19, <1>20, <1>21 DEF Next, IntakeWorks, ApplierWorks

LEMMA TypeInit == Init => TypeOK
<1> SUFFICES ASSUME Init PROVE TypeOK
  OBVIOUS
<1>1. Resting \in Intakes /\ Resting \in Appliers
  BY DEF Intakes, Appliers
<1>2. files \in [Props -> Entries]
  BY NothingType DEF Init
<1>3. told \in [Runs -> {"nothing"} \cup Statuses]
  BY DEF Init
<1>4. writes \in 0..MaxWrites /\ faults \in 0..MaxFaults
  BY VaultAssumption DEF Init, VaultAssumption
<1>q. QED BY <1>1, <1>2, <1>3, <1>4, ObjectKinds DEF Init, TypeOK

\* The vault, the intake, the seat and the applier keep their types, for any
\* properties, bodies, sentences and runs.
THEOREM TypeCorrect == Spec => []TypeOK
<1>1. TypeOK /\ [Next]_vars => TypeOK'
  BY TypeStep
<1>q. QED BY <1>1, TypeInit, PTL DEF Spec

------------------------------------------------------------------------------
\* What leaves the applier and the seat alone.
LEMMA OutsideApplier ==
  ASSUME \/ PortalWrites \/ PutBack \/ IntakeWorks \/ CallFails \/ IntakeStops
  PROVE  UNCHANGED applierVars
<1>1. ASSUME NEW o, Arrives(o) PROVE UNCHANGED applierVars
  BY <1>1 DEF Arrives
<1>2. ASSUME NEW r \in Runs, Start(r) PROVE UNCHANGED applierVars
  BY <1>2 DEF Start, Intake
<1>3. CASE Get \/ Copy \/ Put \/ ReadBack \/ CallFails \/ Converged \/ WaitedOut \/ IntakeStops
  BY <1>3 DEF Get, Copy, Put, ReadBack, CallFails, Converged, WaitedOut, IntakeStops, Answer, Intake
<1>4. CASE WriteResult \/ Purge
  BY <1>4 DEF WriteResult, Purge
<1>q. QED BY <1>1, <1>2, <1>3, <1>4 DEF PortalWrites, PutBack, IntakeWorks

\* What the applier leaves alone.
LEMMA ApplierOnly ==
  ASSUME ApplierWorks \/ TickFails \/ ApplierRestarts
  PROVE  Unmoved
  BY DEF ApplierWorks, HeadEtag, Pull, WriteBody, Commit, Prune, TickFails, ApplierRestarts

LEMMA HandlingStep ==
  ASSUME TypeOK, Handling, [Next]_vars
  PROVE  Handling'
<1>1. CASE PortalWrites \/ PutBack \/ IntakeWorks \/ CallFails \/ IntakeStops
  BY <1>1, OutsideApplier DEF Handling, applierVars
<1>2. CASE HeadEtag
  BY <1>2 DEF HeadEtag, Handling
<1>3. CASE Pull
  <2>1. CASE vault = Absent /\ UNCHANGED << handled, raced >>
    BY <1>3, <2>1 DEF Pull, Unmoved, Handling
  <2>2. CASE /\ vault # Absent /\ (vault = manifest \/ ~Accepted(vault))
             /\ handled' = applier.tag /\ raced' = (vault # applier.tag)
    <3>1. ~raced' => handled' = vault
      BY <2>2
    <3>2. manifest' = manifest
      BY <1>3 DEF Pull
    <3>q. QED BY <2>2, <3>1, <3>2 DEF Handling
  <2>3. CASE UNCHANGED << handled, raced >>
    BY <1>3, <2>3 DEF Pull, Handling
  <2>q. QED BY <1>3, <2>1, <2>2, <2>3 DEF Pull
<1>4. ASSUME NEW p \in Props, WriteBody(p) PROVE Handling'
  <2>1. applier'.pc = "install"
    BY <1>4, ApplierKinds DEF WriteBody, TypeOK
  <2>q. QED BY <1>4, <2>1 DEF WriteBody, Handling
<1>5. CASE Commit
  BY <1>5 DEF Commit, Handling
<1>6. CASE Prune
  BY <1>6 DEF Prune, Handling
<1>7. CASE TickFails
  BY <1>7 DEF TickFails, Handling
<1>8. CASE ApplierRestarts
  <2>1. ~Accepted(Absent)
    BY DEF Accepted, Absent
  <2>q. QED BY <1>8, <2>1 DEF ApplierRestarts, Handling
<1>9. CASE UNCHANGED vars
  BY <1>9 DEF vars, Handling
<1>q. QED BY <1>1, <1>2, <1>3, <1>4, <1>5, <1>6, <1>7, <1>8, <1>9 DEF Next, ApplierWorks

LEMMA MatchingStep ==
  ASSUME TypeOK, Matching, [Next]_vars
  PROVE  Matching'
<1>1. ASSUME UNCHANGED << files, manifest, cut, applier >> PROVE Matching'
  BY <1>1 DEF Matching, Mismatched, Verifies
<1>2. ASSUME UNCHANGED << files, manifest >>, applier.pc # "install" \/ cut',
             cut => cut', applier'.pc # "install"
      PROVE  Matching'
  BY <1>2 DEF Matching, Mismatched, Verifies
<1>3. CASE PortalWrites \/ PutBack \/ IntakeWorks \/ CallFails \/ IntakeStops
  BY <1>1, <1>3, OutsideApplier DEF applierVars
<1>4. CASE HeadEtag
  BY <1>2, <1>4 DEF HeadEtag
<1>5. CASE Pull
  <2>1. CASE applier' = Resting
    BY <1>2, <1>5, <2>1 DEF Pull, Resting
  <2>2. CASE applier' = [pc |-> "install", tag |-> applier.tag, doc |-> vault, todo |-> Named(vault)]
    BY <1>5, <2>2 DEF Pull, Matching
  <2>q. QED BY <1>5, <2>1, <2>2 DEF Pull
<1>6. ASSUME NEW p \in Props, WriteBody(p) PROVE Matching'
  <2>1. /\ applier' = [applier EXCEPT !.todo = @ \ {p}]
        /\ files' = [files EXCEPT ![p] = Authored(applier.doc)[p]]
        /\ applier.pc = "install" /\ files \in [Props -> Entries]
    BY <1>6 DEF WriteBody, TypeOK
  <2>2. applier \in [pc : {"install"}, tag : Objects, doc : Documents, todo : SUBSET Props]
    BY <2>1, ApplierKinds DEF TypeOK
  <2>3. applier'.pc = "install" /\ applier'.doc = applier.doc /\ applier'.todo = applier.todo \ {p}
    BY <2>1, <2>2
  <2>4. Named(applier.doc) \subseteq Props
    BY DEF Named
  <2>5. \A q \in Named(applier.doc) \ (applier.todo \ {p}) : files'[q] = Authored(applier.doc)[q]
    BY <2>1, <2>4 DEF Matching
  <2>q. QED BY <2>3, <2>5 DEF Matching
<1>7. CASE Commit
  <2>1. /\ applier'.pc = "prune" /\ manifest' = applier.doc /\ files' = files
        /\ \A p \in Named(applier.doc) : files[p] = Authored(applier.doc)[p]
    BY <1>7 DEF Commit, Matching
  <2>2. Mismatched' = {}
    BY <2>1 DEF Mismatched, Verifies
  <2>q. QED BY <2>1, <2>2 DEF Matching
<1>8. CASE Prune
  <2>1. /\ applier'.pc = "idle" /\ UNCHANGED << manifest, cut >> /\ applier.pc = "prune"
        /\ \A p \in Named(manifest) : files'[p] = files[p]
    BY <1>8 DEF Prune, Resting, Named
  <2>2. Mismatched' = Mismatched
    BY <2>1 DEF Mismatched, Verifies
  <2>q. QED BY <2>1, <2>2 DEF Matching
<1>9. CASE TickFails
  BY <1>2, <1>9 DEF TickFails, Resting
<1>10. CASE ApplierRestarts
  <2>1. applier'.pc # "install"
    BY <1>10 DEF ApplierRestarts, Resting
  <2>q. QED BY <1>2, <1>10, <2>1, Zenon DEF ApplierRestarts
<1>11. CASE UNCHANGED vars
  BY <1>1, <1>11 DEF vars
<1>q. QED BY <1>3, <1>4, <1>5, <1>6, <1>7, <1>8, <1>9, <1>10, <1>11 DEF Next, ApplierWorks

LEMMA MergingStep ==
  ASSUME TypeOK, Merging, [Next]_vars
  PROVE  Merging'
<1>1. ASSUME intake'.pc \notin {"copy", "put"} PROVE Merging'
  BY <1>1 DEF Merging
<1>2. ASSUME NEW o, Arrives(o) PROVE Merging'
  BY <1>2 DEF Arrives, intakeVars, Merging
<1>3. ASSUME NEW r \in Runs, Start(r) PROVE Merging'
  BY <1>1, <1>3 DEF Start, Intake
<1>4. CASE Get
  <2>1. CASE intake'.pc \in {"copy", "put"}
    <3>1. \/ vault = Absent /\ intake' = [pc |-> "put", run |-> intake.run, put |-> GetPut]
          \/ intake' = [pc |-> "copy", run |-> intake.run, put |-> GetPut, read |-> vault]
      BY <1>4, <2>1 DEF Get, GetPut, Answer, Intake
    <3>2. UNCHANGED << vault, previous >> /\ Keeps(intake.run, Authored(vault), Authored(GetPut))
      BY <1>4, GetPutIs DEF Get
    <3>q. QED BY <3>1, <3>2 DEF Merging
  <2>q. QED BY <1>1, <2>1
<1>5. CASE Copy
  <2>1. /\ intake' = [pc |-> "put", run |-> intake.run, put |-> intake.put]
        /\ previous' = intake.read /\ UNCHANGED << vault, stale >> /\ intake.pc = "copy"
    BY <1>5 DEF Copy, Intake
  <2>q. QED BY <2>1 DEF Merging
<1>6. CASE Put
  <2>1. intake'.pc = "back"
    BY <1>6, IntakeKinds DEF Put, Intake, TypeOK
  <2>q. QED BY <1>1, <2>1
<1>7. CASE ReadBack
  <2>1. intake'.pc \in {"converge", "result"}
    BY <1>7, IntakeKinds DEF ReadBack, Answer, Intake, TypeOK, Intakes, Resting
  <2>q. QED BY <1>1, <2>1
<1>8. CASE CallFails \/ Converged \/ WaitedOut \/ IntakeStops \/ WriteResult \/ Purge
  BY <1>1, <1>8 DEF CallFails, Converged, WaitedOut, IntakeStops, WriteResult, Purge, Answer, Intake, Resting
<1>9. CASE ApplierWorks \/ TickFails \/ ApplierRestarts
  BY <1>9, ApplierOnly DEF Unmoved, intakeVars, Merging
<1>10. CASE UNCHANGED vars
  BY <1>10 DEF vars, Merging
<1>q. QED BY <1>2, <1>3, <1>4, <1>5, <1>6, <1>7, <1>8, <1>9, <1>10
          DEF Next, PortalWrites, PutBack, IntakeWorks

LEMMA UnrepeatedStep ==
  ASSUME TypeOK, Unrepeated, [Next]_vars
  PROVE  Unrepeated'
<1> SUFFICES ASSUME \A o \in Authorings : DistinctIn(o)
             PROVE  (/\ DistinctIn(vault) /\ DistinctIn(previous)
                     /\ intake.pc \in {"copy", "put"} => DistinctIn(intake.put)
                     /\ intake.pc = "copy" => DistinctIn(intake.read))'
  BY DEF Unrepeated
<1>0. /\ DistinctIn(vault) /\ DistinctIn(previous)
      /\ intake.pc \in {"copy", "put"} => DistinctIn(intake.put)
      /\ intake.pc = "copy" => DistinctIn(intake.read)
  BY DEF Unrepeated
<1>1. ASSUME NEW o, Arrives(o), DistinctIn(o) PROVE Unrepeated'
  BY <1>0, <1>1 DEF Arrives, intakeVars, Unrepeated
<1>2. CASE PortalWrites \/ PutBack
  BY <1>0, <1>1, <1>2 DEF PortalWrites, PutBack, Unrepeated
<1>3. ASSUME NEW r \in Runs, Start(r) PROVE Unrepeated'
  BY <1>0, <1>3 DEF Start, Intake, Unrepeated
<1>4. CASE Get
  <2>1. \/ intake'.pc = "result"
        \/ intake' = [pc |-> "put", run |-> intake.run, put |-> GetPut]
        \/ intake' = [pc |-> "copy", run |-> intake.run, put |-> GetPut, read |-> vault]
    BY <1>4 DEF Get, GetPut, Answer, Intake
  <2>2. UNCHANGED << vault, previous >> /\ DistinctIn(GetPut)
    BY <1>0, <1>4, GetPutIs DEF Get
  <2>q. QED BY <1>0, <2>1, <2>2 DEF Unrepeated
<1>5. CASE Copy
  <2>1. /\ intake' = [pc |-> "put", run |-> intake.run, put |-> intake.put]
        /\ previous' = intake.read /\ vault' = vault /\ intake.pc = "copy"
    BY <1>5 DEF Copy, Intake
  <2>q. QED BY <1>0, <2>1 DEF Unrepeated
<1>6. CASE Put
  <2>1. intake'.pc = "back" /\ vault' = intake.put /\ previous' = previous /\ intake.pc = "put"
    BY <1>6, IntakeKinds DEF Put, Intake, TypeOK
  <2>q. QED BY <1>0, <2>1 DEF Unrepeated
<1>7. CASE ReadBack
  <2>1. intake'.pc \in {"converge", "result"}
    BY <1>7, IntakeKinds DEF ReadBack, Answer, Intake, TypeOK, Intakes, Resting
  <2>q. QED BY <1>0, <1>7, <2>1 DEF ReadBack, Unrepeated
<1>8. CASE CallFails
  <2>1. intake'.pc = "result"
    BY <1>8 DEF CallFails, Answer, Intake
  <2>2. DistinctIn(vault)' /\ DistinctIn(previous)'
    BY <1>0, <1>8 DEF CallFails
  <2>q. QED BY <2>1, <2>2 DEF Unrepeated
<1>9. CASE Converged \/ WaitedOut \/ IntakeStops \/ WriteResult \/ Purge
  BY <1>0, <1>9 DEF Converged, WaitedOut, IntakeStops, WriteResult, Purge, Answer, Intake, Resting, Unrepeated
<1>10. CASE ApplierWorks \/ TickFails \/ ApplierRestarts
  BY <1>0, <1>10, ApplierOnly DEF Unmoved, intakeVars, Unrepeated
<1>11. CASE UNCHANGED vars
  BY <1>0, <1>11 DEF vars, Unrepeated
<1>q. QED BY <1>2, <1>3, <1>4, <1>5, <1>6, <1>7, <1>8, <1>9, <1>10, <1>11
          DEF Next, IntakeWorks, Unrepeated

LEMMA VaultInvInit == Init => VaultInv
<1> SUFFICES ASSUME Init PROVE VaultInv
  OBVIOUS
<1>1. TypeOK
  BY TypeInit
<1>2. /\ vault = Absent /\ previous = Absent /\ manifest = Absent /\ handled = Absent
      /\ intake.pc = "idle" /\ applier.pc = "idle"
  BY DEF Init, Resting
<1>3. ~Accepted(Absent) /\ Named(Absent) = {} /\ DistinctIn(Absent)
  BY ObjectKinds, NothingType DEF Accepted, Named, Authored, DistinctIn
<1>4. Handling /\ Merging /\ Unrepeated
  BY <1>2, <1>3 DEF Handling, Merging, Unrepeated
<1>5. Matching
  BY <1>2, <1>3 DEF Matching, Mismatched
<1>q. QED BY <1>1, <1>4, <1>5 DEF VaultInv

LEMMA VaultInvStep == VaultInv /\ [Next]_vars => VaultInv'
  BY TypeStep, HandlingStep, MatchingStep, MergingStep, UnrepeatedStep DEF VaultInv

LEMMA VaultInvHolds == Spec => []VaultInv
  BY VaultInvInit, VaultInvStep, PTL DEF Spec

\* An object the applier handled and accepts is the one the seat serves, whole,
\* but for a tag of another object or an install cut short: at any interleaving
\* of the portal, the intake and the applier.
THEOREM HandledServed == Spec => []HandledIsServed
<1>1. VaultInv => HandledIsServed
  BY DEF VaultInv, Handling, Matching, HandledIsServed
<1>q. QED BY <1>1, VaultInvHolds, PTL

\* The gates refuse a spec as tampered with only in the middle of an install or
\* after one was cut short: the bodies go first and the manifest last.
THEOREM OnlyMidInstall == Spec => []RefusedOnlyMidInstall
<1>1. VaultInv => RefusedOnlyMidInstall
  BY DEF VaultInv, Matching, RefusedOnlyMidInstall
<1>q. QED BY <1>1, VaultInvHolds, PTL

\* A run taken again, as often as it may be, says its sentence once.
THEOREM OneSentence == Spec => []SentenceOnce
<1>1. VaultInv => SentenceOnce
  BY DEF VaultInv, Unrepeated, DistinctIn, SentenceOnce
<1>q. QED BY <1>1, VaultInvHolds, PTL

\* Where the vault changes under the intake's put, it becomes what was to be put.
LEMMA PutIs ==
  ASSUME VaultInv, [Next]_vars, IntakePuts
  PROVE  intake.pc = "put" /\ vault' = intake.put
<1> USE DEF IntakePuts
<1>1. ASSUME NEW o, Arrives(o) PROVE FALSE
  BY <1>1 DEF Arrives, VaultInv, TypeOK
<1>2. CASE \E r \in Runs : Start(r)
  BY <1>2 DEF Start
<1>3. CASE Get \/ Copy \/ Put \/ ReadBack \/ CallFails \/ Converged \/ WaitedOut \/ IntakeStops
  BY <1>3 DEF Get, Copy, Put, ReadBack, CallFails, Converged, WaitedOut, IntakeStops
<1>4. CASE WriteResult \/ Purge
  BY <1>4 DEF WriteResult, Purge
<1>5. CASE ApplierWorks \/ TickFails \/ ApplierRestarts
  BY <1>5, ApplierOnly DEF Unmoved
<1>6. CASE UNCHANGED vars
  BY <1>6 DEF vars
<1>q. QED BY <1>1, <1>2, <1>3, <1>4, <1>5, <1>6 DEF Next, PortalWrites, PutBack, IntakeWorks

\* What the intake writes keeps what it did not ask to change, if nobody wrote
\* since it read.
THEOREM NothingCleared == Spec => RoutesClearNothing
<1>1. VaultInv /\ [Next]_vars =>
         [IntakePuts /\ ~stale => Keeps(intake.run, Authored(vault), Authored(vault'))]_vars
  BY PutIs DEF VaultInv, Merging
<1>q. QED BY <1>1, VaultInvHolds, PTL DEF Spec, RoutesClearNothing

\* What the intake replaces is at the recovery key, if nobody wrote since it read.
THEOREM CopyKept == Spec => ReplacedIsKept
<1>1. VaultInv /\ [Next]_vars =>
         [IntakePuts /\ ~stale /\ vault # Absent => previous = vault]_vars
  BY PutIs DEF VaultInv, Merging
<1>q. QED BY <1>1, VaultInvHolds, PTL DEF Spec, ReplacedIsKept
===============================================================================
