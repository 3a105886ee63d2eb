------------------------------ MODULE MCSpecVault ------------------------------
(***************************************************************************)
(* A class with a voice and a format; a body that leaves no room for a     *)
(* sentence; a portal that writes a sound object and a torn one.           *)
(***************************************************************************)
EXTENDS SpecVault, TLC

CONSTANTS voice, format, brief, full, formal, said, replaced

MCWeight == (brief :> 1) @@ (full :> 2) @@ (NoBody :> 0)

MCAsked == (said :> [prop |-> voice, sentence |-> formal])
        @@ (replaced :> [prop |-> voice, body |-> full])

Of(v, f) == [kind |-> "document", specs |-> (voice :> v) @@ (format :> f)]
Body(b, ok) == [body |-> b, sound |-> ok, said |-> << >>]

MCAuthorings == {Absent, Of(Body(brief, TRUE), Body(full, TRUE)), Of(Nothing, Body(full, FALSE))}
===============================================================================
