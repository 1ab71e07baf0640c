----------------------------- MODULE MCCommands -----------------------------
(* Two pattern names, one of them a word of the language; patterns of one id
   in two versions and two bodies, one that validation refuses, one that the
   compiler has no room for, one that grounding refuses, one with an escape; a
   library that was there before. *)
EXTENDS Commands

MCNames == <<"a", "pattern">>

Content(state, version, family, evidence, canonical, plain) ==
    [state |-> state, id |-> "a", version |-> version, family |-> family,
     evidence |-> evidence, contradictory |-> FALSE, canonical |-> canonical,
     plain |-> plain]

MCContents ==
    {Content("good", 1, "Reentrancy", "x", TRUE, TRUE),
     Content("good", 1, "OracleManipulation", "y", FALSE, FALSE),
     Content("good", 2, "Reentrancy", "y", FALSE, TRUE),
     [Content("good", 1, "OracleManipulation", "y", TRUE, TRUE) EXCEPT !.id = "b"],
     Content("good", 1, "Unheard", "x", FALSE, TRUE),
     [Content("good", 1, "Reentrancy", "x", TRUE, TRUE) EXCEPT !.contradictory = TRUE],
     Content("invalid", 1, "Reentrancy", "x", FALSE, TRUE),
     Content("panics", 3, "Reentrancy", "x", TRUE, TRUE),
     Content("unreadable", 1, "Reentrancy", "x", FALSE, TRUE)}

Trace(ingests, matches, grounds) ==
    [ingests |-> ingests, matches |-> matches, grounds |-> grounds]
MCDemoTraces ==
    {Trace(TRUE, {"x", "y"}, {"x"}), Trace(TRUE, {"y"}, {}), Trace(FALSE, {}, {})}

(* An empty directory, and libraries of one or two patterns with all, some or
   none of their traces. *)
Demo(role) == IF role = "positive" THEN Trace(TRUE, {"x", "y"}, {"x"}) ELSE Trace(TRUE, {"y"}, {})
Workspace(first, second, demos) ==
    [path \in Paths |->
        CASE path = <<"a", "pattern">> -> first
          [] path = <<"pattern", "pattern">> -> second
          [] path[2] \in demos /\ (path[1] = "a" \/ second # None) -> Demo(path[2])
          [] OTHER -> None]
MCWorkspaces ==
    {Workspace(first, second, {"positive", "negative"}) :
        first \in MCContents, second \in MCContents \union {None}}
    \union {Workspace(first, None, demos) :
        first \in MCContents \union {None}, demos \in {{}, {"negative"}}}
=============================================================================
