-------------------------- MODULE MCGeneratedScope --------------------------
EXTENDS GeneratedScope

MCCount ==
  [l \in Lists \cup {"cost_centers", "fiscal_years"} |->
     IF l \in {"general_ledger_accounts", "creditors"} THEN 3 ELSE 2]

\* Any function does; this one depends on all of its arguments.
Number(place) ==
  Len(place[1]) + 3 * place[2] +
    (CASE place[3] = "content" -> 1 [] place[3] = "addressee" -> 4
       [] place[3] = "sequence" -> 6 [] place[3] = "cost_center" -> 9
       [] place[3] = "term" -> 11 [] place[3] = "account" -> 13 [] OTHER -> 16)

MCValue(seed, place) ==
  LET client == IF seed[1] = "c1" THEN 0 ELSE 2
      year == IF Len(seed) > 1 THEN seed[2] ELSE 0
  IN  Number(place) * 3 + client + 5 * year + (IF Len(seed) = 3 THEN 7 ELSE 0)

MCYears == UNION {{BaseYear(c), BaseYear(c) + 1} : c \in Clients}
=============================================================================
