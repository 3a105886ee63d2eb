\* One run that says a sentence, one that replaces the body under it.
SPECIFICATION FairSpec
CONSTANTS
    voice = voice
    format = format
    brief = brief
    full = full
    formal = formal
    said = said
    replaced = replaced
    NoBody = NoBody
    Props = {voice, format}
    Bodies = {brief, full}
    Sentences = {formal}
    Weight <- MCWeight
    Ceiling = 2
    Runs = {said, replaced}
    Asked <- MCAsked
    Authorings <- MCAuthorings
    MaxWrites = 2
    MaxFaults = 1
INVARIANTS
    HandledIsServed
    RefusedOnlyMidInstall
    SentenceOnce
PROPERTIES
    RoutesClearNothing
    ReplacedIsKept
    VaultSettles
CHECK_DEADLOCK FALSE
