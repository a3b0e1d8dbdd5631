-------------------------------- MODULE Basket --------------------------------
(***************************************************************************)
(* What a grocery order costs: the lines of its cart, the problems a picker *)
(* reports with them, the customer's answers, and orders.items_total_minor, *)
(* which every change of a line recomputes.                                  *)
(*                                                                          *)
(* The recomputing statement reads the lines in a snapshot of its own and   *)
(* then waits for the row of the order: two changes of one order that       *)
(* overlap do not see each other (READ COMMITTED).  A change is therefore    *)
(* two steps, the snapshot (Sum...) and the commit.  The item's row is       *)
(* locked before the snapshot, so changes of one line take turns.            *)
(***************************************************************************)
EXTENDS GroceryOrder, Sequences

CONSTANTS
    PriceOf,       \* unit_price_minor of a line, the snapshot of its product
    PreferenceOf,  \* substitution_preference of a line
    Offers,        \* unit prices a shop may ask for a substitute
    MaxIssues      \* bound: problems reported

ASSUME BasketAssumption ==
    /\ PriceOf \in [Lines -> Nat]
    /\ PreferenceOf \in [Lines -> {"ALLOW", "DO_NOT_ALLOW", "ASK_ME"}]
    /\ Offers \subseteq Nat
    /\ MaxIssues \in Nat

VARIABLES
    lineStatus,  \* order_items.status
    issues,      \* order_item_issues, in the order of created_at
    total,       \* orders.items_total_minor
    changes      \* transactions that have summed their order, and hold its line

basketVars == <<lineStatus, issues, total, changes>>
allVars    == <<vars, basketVars>>

Proposals   == {"SUBSTITUTE", "REMOVE", "REQUEST_CUSTOMER_DECISION"}
Resolutions == {"PENDING", "AUTO_APPLIED", "CUSTOMER_ACCEPTED", "CUSTOMER_DECLINED"}

BasketTypeOK ==
    /\ TypeOK
    /\ lineStatus \in [Lines -> {"ORDERED", "SUBSTITUTED", "REMOVED"}]
    /\ issues \in Seq([line : Lines, action : Proposals, offer : Offers \cup {None},
                       resolution : Resolutions \cup {"unwritten", "lost"}])
    /\ total \in [Orders -> Nat]
    /\ \A c \in changes :
          /\ c.order \in Orders /\ c.line \in Lines /\ c.sum \in Nat
          /\ c.issue \in 0..Len(issues)

BasketInit ==
    /\ Init
    /\ lineStatus = [l \in Lines |-> "ORDERED"]
    /\ issues = <<>>
    /\ total = [o \in Orders |-> 0]
    /\ changes = {}

-----------------------------------------------------------------------------
(* Prices *)

\* A settled substitution prices its line, the most recent first: of the
\* issues whose action is SUBSTITUTE, that is, and not of the questions.
Reprices(issue) ==
    /\ issue.action = "SUBSTITUTE"
    /\ issue.offer # None
    /\ issue.resolution \in {"CUSTOMER_ACCEPTED", "AUTO_APPLIED"}

UnitPrice(l, iss) ==
    LET settled == {i \in DOMAIN iss : iss[i].line = l /\ Reprices(iss[i])}
    IN  IF settled = {} THEN PriceOf[l] ELSE iss[Max(settled)].offer

\* recomputeTotal: the lines that are not REMOVED.
SumOf(lines, st, iss) ==
    MapThenSumSet(LAMBDA l : UnitPrice(l, iss) * QtyOf[l], {l \in lines : st[l] # "REMOVED"})

\* Mistake: the shop's proposal is taken as it is.
TakeProposal(preference, proposed) == proposed

\* The customer's standing instruction decides, not the shop's proposal.
ResolveIssue(preference, proposed) ==
    CASE preference = "DO_NOT_ALLOW" /\ proposed = "SUBSTITUTE" -> "REMOVE"
      [] preference = "ASK_ME" /\ proposed = "SUBSTITUTE" -> "REQUEST_CUSTOMER_DECISION"
      [] OTHER -> proposed

\* What an issue does to its line.
StatusAfter(issue) ==
    IF issue.action = "REMOVE" \/ issue.resolution = "CUSTOMER_DECLINED"
    THEN "REMOVED" ELSE "SUBSTITUTED"

-----------------------------------------------------------------------------
(* Changes of a line *)

Change(o, l, i, resolution, sum) ==
    [order |-> o, line |-> l, issue |-> i, resolution |-> resolution, sum |-> sum]

Unlocked(l) == \A c \in changes : c.line # l

\* Store.AddItem inserts its line and sums the lines it sees.
SumWithLine(o, l) ==
    /\ <<o, l>> \in inFlight /\ Unlocked(l)
    /\ changes' = changes \cup
          {Change(o, l, 0, "none", SumOf(linesOf[o] \cup {l}, lineStatus, issues))}
    /\ UNCHANGED <<vars, lineStatus, issues, total>>

CommitLine(c) ==
    /\ c \in changes /\ c.issue = 0
    /\ AddItem(c.order, c.line)
    /\ total' = [total EXCEPT ![c.order] = c.sum]
    /\ changes' = changes \ {c}
    /\ UNCHANGED <<lineStatus, issues>>

\* ReportIssue reads the order while it is being picked and settles what
\* happens; RecordIssue does not look at the order again.  A removal carries
\* no offer, and a substitution needs one.
ReportIssue(o, l, proposed, offer) ==
    LET action == ResolveIssue(PreferenceOf[l], proposed) IN
    /\ status[o] = "PREPARING" /\ l \in linesOf[o]
    /\ Len(issues) < MaxIssues
    /\ action = "SUBSTITUTE" => offer # None
    /\ issues' = Append(issues, [line |-> l, action |-> action,
                                 offer |-> IF action = "REMOVE" THEN None ELSE offer,
                                 resolution |-> "unwritten"])
    /\ UNCHANGED <<vars, lineStatus, total, changes>>

\* A question touches neither the line nor the total.
RecordQuestion(i) ==
    /\ issues[i].resolution = "unwritten"
    /\ issues[i].action = "REQUEST_CUSTOMER_DECISION"
    /\ issues' = [issues EXCEPT ![i].resolution = "PENDING"]
    /\ UNCHANGED <<vars, lineStatus, total, changes>>

\* An issue is given its resolution, its line follows, and the order is summed.
SumWithIssue(o, i, resolution) ==
    LET l   == issues[i].line
        iss == [issues EXCEPT ![i].resolution = resolution]
        st  == [lineStatus EXCEPT ![l] = StatusAfter(iss[i])]
    IN  /\ l \in linesOf[o] /\ Unlocked(l)
        /\ changes' = changes \cup {Change(o, l, i, resolution, SumOf(linesOf[o], st, iss))}
        /\ UNCHANGED <<vars, lineStatus, issues, total>>

RecordIssue(o, i) ==
    /\ issues[i].resolution = "unwritten"
    /\ issues[i].action # "REQUEST_CUSTOMER_DECISION"
    /\ SumWithIssue(o, i, "AUTO_APPLIED")

\* The customer answers; compare-and-set on PENDING, whatever became of the
\* order in the meantime.
SettleIssue(o, i, answer) ==
    /\ answer \in {"CUSTOMER_ACCEPTED", "CUSTOMER_DECLINED"}
    /\ issues[i].resolution = "PENDING"
    /\ SumWithIssue(o, i, answer)

CommitIssue(c) ==
    /\ c \in changes /\ c.issue # 0
    /\ issues' = [issues EXCEPT ![c.issue].resolution = c.resolution]
    /\ lineStatus' = [lineStatus EXCEPT ![c.line] = StatusAfter(issues'[c.issue])]
    /\ total' = [total EXCEPT ![c.order] = c.sum]
    /\ changes' = changes \ {c}
    /\ UNCHANGED vars

-----------------------------------------------------------------------------
(* Failure: a transaction rolls back, a report is never recorded *)

LoseChange(c) ==
    /\ CanFail
    /\ c \in changes
    /\ changes' = changes \ {c}
    /\ issues' = IF c.resolution = "AUTO_APPLIED"
                 THEN [issues EXCEPT ![c.issue].resolution = "lost"] ELSE issues
    /\ inFlight' = IF c.issue = 0 THEN inFlight \ {<<c.order, c.line>>} ELSE inFlight
    /\ UNCHANGED <<orderVars, stockVars, deliveryVars, releasing, taps, news, lineStatus, total>>

LoseReport(i) ==
    /\ CanFail
    /\ issues[i].resolution = "unwritten" /\ Unlocked(issues[i].line)
    /\ issues' = [issues EXCEPT ![i].resolution = "lost"]
    /\ UNCHANGED <<vars, lineStatus, total, changes>>

-----------------------------------------------------------------------------
(* The system: everything an order does, and what happens to its lines *)

\* Any step of the order but the insertion of a line, which commits here.
OrderStep ==
    /\ \/ \E o \in Orders :
            \/ \E l \in Lines : ReadCart(o, l)
            \/ Place(o) \/ CancelByCustomer(o)
       \/ Merchant \/ Sweeper \/ Job
       \/ \E o \in Orders : LoseRelease(o) \/ \E l \in Lines : Unlocked(l) /\ LoseAdd(o, l)
       \/ \E t \in Taps : LoseTap(t)
       \/ \E n \in news : LoseNews(n)
    /\ UNCHANGED basketVars

LineStep ==
    \/ \E o \in Orders, l \in Lines :
        \/ SumWithLine(o, l)
        \/ \E proposed \in Proposals, offer \in Offers \cup {None} :
              ReportIssue(o, l, proposed, offer)
    \/ \E i \in DOMAIN issues :
        \/ RecordQuestion(i) \/ LoseReport(i)
        \/ \E o \in Orders :
            RecordIssue(o, i) \/ \E answer \in Resolutions : SettleIssue(o, i, answer)
    \/ \E c \in changes : CommitLine(c) \/ CommitIssue(c) \/ LoseChange(c)

BasketNext == OrderStep \/ LineStep

BasketSpec == BasketInit /\ [][BasketNext]_allVars

-----------------------------------------------------------------------------
(* Properties *)

\* What line l may cost without anybody having been asked for more: nothing,
\* what was ordered, or a substitute the customer accepted or had allowed.
Consented(l) ==
    {0, PriceOf[l]} \cup
    {issues[i].offer : i \in {k \in DOMAIN issues :
        /\ issues[k].line = l /\ issues[k].offer # None
        /\ \/ issues[k].resolution = "CUSTOMER_ACCEPTED"
           \/ issues[k].resolution = "AUTO_APPLIED" /\ PreferenceOf[l] = "ALLOW"}}

\* Document 74, "the customer's instruction is authoritative": whatever a shop
\* proposes, and however reports, answers and additions to one order overlap,
\* a line is substituted only where the customer allowed or accepted it, and the
\* total is made of prices that they ordered, accepted or had allowed.
ChargesAreConsented ==
    /\ \A l \in Lines : lineStatus[l] = "SUBSTITUTED" =>
          \/ PreferenceOf[l] = "ALLOW"
          \/ \E i \in DOMAIN issues : /\ issues[i].line = l
                                      /\ issues[i].resolution = "CUSTOMER_ACCEPTED"
    /\ \A o \in Orders :
          \E price \in [linesOf[o] -> UNION {Consented(l) : l \in linesOf[o]}] :
             /\ \A l \in linesOf[o] : price[l] \in Consented(l)
             /\ total[o] = MapThenSumSet(LAMBDA l : price[l] * QtyOf[l], linesOf[o])

=============================================================================
