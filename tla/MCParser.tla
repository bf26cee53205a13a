------------------------------- MODULE MCParser -------------------------------
(* ParserChild with one helper, and WorkbenchPage with a saved game and two new demos. *)
EXTENDS ParserChild, WorkbenchPage

CONSTANTS p1

\* A game of one demo, which has been reanalysed.
SavedJob == [demo |-> 1, state |-> "succeeded", upload |-> TRUE, game |-> 1]
SavedGames == <<SavedJob, [SavedJob EXCEPT !.upload = FALSE]>>
Selections == {<<2>>, <<2, 2>>, <<2, 3>>, <<1, 2>>}

\* No parser runs, or no page is open.
NoParser ==
    /\ host = "local" /\ deaf = {} /\ alive = {} /\ doomed = {} /\ code = "unspawned"
    /\ exitSeen = TRUE /\ size = 1 /\ written = 0 /\ got = 0 /\ phase = 0 /\ lines = 0
    /\ reported = 200 /\ ceiling = 223 /\ timers = {} /\ terminal = NoReason
    /\ outcome = "down" /\ cancelled = TRUE

NoPage ==
    /\ items = <<[demo |-> Nothing, state |-> "failed", job |-> Nothing, shown |-> Nothing,
                  calls |-> << >>]>>
    /\ route = Nothing /\ error = FALSE /\ refreshed = FALSE /\ refresh = << >>
    /\ jobs = << >> /\ created = 1 /\ failures = 0 /\ acts = << >>

Steps ==
    \/ ParserNext /\ UNCHANGED pageVars
    \/ PageNext /\ UNCHANGED parserVars

WorkbenchSpec ==
    /\ (ParserInit /\ NoPage) \/ (PageInit /\ NoParser)
    /\ [][Steps]_<<parserVars, pageVars>>
    /\ ParserFairness /\ PageFairness
=============================================================================
