----------------------------- MODULE MCCardNews -----------------------------
EXTENDS CardNews, TLC

(* Everything one request at a time with three people, who may be the      *)
(* creator, the actor and the assignee; the same with people who come and  *)
(* go and notices that fail; and requests that set the assignees while     *)
(* others complete, rename, move, archive or assign.                       *)
Pairs == {S \in SUBSET People : Cardinality(S) = 2}

MCNewsMixes ==
    [does : {"n1" :> NewsOps @@ "n2" :> {}}, there : {People},
     turnover : {FALSE}, failing : {FALSE}]
    \cup [does : {"n1" :> {"create", "assign", "rename"} @@ "n2" :> {}}, there : {People},
          turnover : {TRUE}, failing : {TRUE}]
    \cup [does : {"n1" :> {"create", "assign"} @@ "n2" :> {"complete"}}, there : {People},
          turnover : {FALSE}, failing : {FALSE}]
    \cup [does : {"n1" :> {"create", "assign"} @@ "n2" :> ops :
                  ops \in {{"complete", "rename"}, {"move", "archive"}, {"assign"}}},
          there : Pairs, turnover : {FALSE}, failing : {FALSE}]
=============================================================================
