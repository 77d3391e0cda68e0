---------------------------- MODULE MCPipelines ----------------------------
(* Small inputs for the three applications.                                *)
EXTENDS Pipelines

CONSTANTS a, b   \* letters

User(i, n) == [uuid |-> i, name |-> n]
Commit(p, x, y) == [pid |-> p, author |-> x, committer |-> y]

Everyone == {{1, 2}, {1, 3}, {2, 3}}

Demos ==
  {[app |-> "demo", main |-> column, linked |-> linked] :
     column \in {<<0>>, <<0, 1, 2>>}, linked \in {Everyone, Everyone \ {{1, 2}}}}

(* Lines that end in a blank, lines that do not, empty lines, and no file  *)
(* at all.                                                                 *)
Lines == {<<>>, <<a, Blank>>, <<a, b, Blank, a, Blank>>, <<Blank, b>>, <<a>>}

Texts == {[app |-> "words", text |-> text, linked |-> Everyone] :
            text \in (Lines \X Lines) \cup {Null}}

Users == <<User(1, "x"), User(2, "torvalds"), User(3, "y"), User(4, "x")>>

Projects == <<7, 8, 9>>

(* A chain 2 - 1 - 3, with 4 apart; one commit by two people at once; a    *)
(* table of users without the one in between, and one without torvalds;    *)
(* users and projects, or users and commits, that never meet.              *)
Chain == <<Commit(7, 2, 2), Commit(7, 1, 1), Commit(8, 1, 1), Commit(8, 3, 3), Commit(9, 4, 4)>>
Pairs == <<Commit(7, 1, 2), Commit(8, 3, 1), Commit(9, 4, 3)>>

History(users, commits, linked) ==
  [app |-> "linus", users |-> users, commits |-> commits, projects |-> Projects, linked |-> linked]

Histories ==
  {History(Users, Chain, Everyone), History(Users, Pairs, Everyone),
   History(Tail(Users), Pairs, Everyone), History(<<User(1, "x")>>, Chain, Everyone),
   History(Users, Pairs, Everyone \ {{1, 3}}), History(Users, Chain, Everyone \ {{1, 2}})}

MCJobs == Demos \cup Texts \cup Histories

=============================================================================
