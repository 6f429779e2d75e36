-------------------------------- MODULE Metrics --------------------------------
(* The figures of a report as functions: what each compiled metric computes  *)
(* (analytics/semantics/metrics.py), which requests compile_metric accepts   *)
(* and what they narrow (compiler.py, parameters.py), what the executor lets *)
(* through (analytics/sql/executor.py) and how a rerun numbers and displays  *)
(* it (orchestration/reruns.py).                                             *)
(* Tables are sets of rows with an id; a row's labels (country, device,      *)
(* method, ...) are one column "label" that may be NULL, a time is a day.    *)
EXTENDS Integers, Sequences, FiniteSets, FiniteSetsExt
CONSTANTS
    Null,          \* SQL's NULL
    MonthDays      \* days of a month, for date_part and date_trunc

ASSUME MetricsAssumption == MonthDays \in Nat \ {0} /\ Null \notin Int

Total(rows, value(_)) ==
    LET known == {r \in rows : value(r) # Null}
    IN  IF known = {} THEN Null ELSE SumFunction([r \in known |-> value(r)])
ZeroIfNull(x) == IF x = Null THEN 0 ELSE x

(* ROUND(x / y * scale), half away from zero; NULL at no denominator. Rates  *)
(* are in hundredths of a percent, averages in hundredths.                   *)
RoundedRatio(scale, x, y) ==
    IF x = Null \/ y = Null \/ y = 0 THEN Null
    ELSE LET n == 2 * scale * x s == IF n < 0 THEN -1 ELSE 1
         IN  s * ((s * n + y) \div (2 * y))
Percent(x, y) == RoundedRatio(10000, x, y)

InPeriod(day, period) == day # Null /\ period.start <= day /\ day < period.end

(* A predicate that is NULL keeps no row.                                    *)
Passes(row, f) ==
    /\ row.label # Null
    /\ CASE f.operator = "eq" -> row.label = f.value
         [] f.operator = "ne" -> row.label # f.value
         [] f.operator = "in" -> row.label \in f.value
         [] f.operator = "not_in" -> row.label \notin f.value
PassesAll(row, filters) == \A i \in DOMAIN filters : Passes(row, filters[i])

(* The tables the statements read: finitely many rows with keys of their own *)
(* and a time that may be NULL. An order has a time, an amount that is not   *)
(* negative and finitely many items, a review a rating.                      *)
Day(x) == x = Null \/ x \in Int
HasKeys(rows) == IsFiniteSet(rows) /\ \A r, s \in rows : r.id = s.id => r = s
IsRow(source, r) ==
    CASE source = "orders" -> /\ r.at \in Int /\ r.total \in Nat /\ HasKeys(r.items)
                              /\ \A i \in r.items : i.line \in Int /\ i.cost \in Int /\ i.quantity \in Int
      [] source = "payments" -> Day(r.at) /\ r.total \in Int
      [] source = "shipments" -> Day(r.at) /\ Day(r.shipped) /\ Day(r.expected)
      [] source = "reviews" -> Day(r.at) /\ r.rating \in Int
      [] OTHER -> Day(r.at)
IsTable(source, table) == HasKeys(table) /\ \A r \in table : IsRow(source, r)

----------------------------------------------------------------------------
(* The statements: which rows a metric reads, and what it says of them       *)

Delivered(rows) == {o \in rows : o.status = "delivered"}
Processed(order) == {r \in order.refunds : r.status = "processed"}

(* JOIN order_items: one row per item, the order's columns beside it *)
ItemRows(orders) ==
    UNION {{[id |-> <<o.id, i.id>>, at |-> o.at, label |-> o.label, line |-> i.line, cost |-> i.cost, quantity |-> i.quantity] :
               i \in o.items} : o \in orders}

Profit(i) == i.line - i.cost * i.quantity
Amount(o) == o.total
Line(i) == i.line
Quantity(i) == i.quantity

Revenue(orders) == [revenue |-> Total(Delivered(orders), Amount), order_count |-> Cardinality(Delivered(orders))]
GrossProfit(orders) ==
    LET items == ItemRows(Delivered(orders))
    IN  [gross_profit |-> Total(items, Profit), line_revenue |-> Total(items, Line)]
GrossMargin(orders) ==
    LET p == GrossProfit(orders)
    IN  [gross_profit |-> p.gross_profit, line_revenue |-> p.line_revenue,
         rate |-> Percent(p.gross_profit, p.line_revenue)]
UnitsSold(orders) == [units_sold |-> Total(ItemRows(Delivered(orders)), Quantity)]
AverageOrderValue(orders) ==
    LET r == Revenue(orders)
    IN  [total_revenue |-> r.revenue, order_count |-> r.order_count,
         average |-> RoundedRatio(100, r.revenue, r.order_count)]
Customers(orders) == {o.customer : o \in Delivered(orders)}
CustomerCount(orders) == [customer_count |-> Cardinality(Customers(orders))]

RepeatCustomers(orders) ==
    {c \in Customers(orders) : Cardinality({o \in Delivered(orders) : o.customer = c}) > 1}
RepeatCustomerRate(orders) ==
    LET repeat == Cardinality(RepeatCustomers(orders)) all == Cardinality(Customers(orders))
    IN  [repeat_customer_count |-> repeat, customer_count |-> all, rate |-> Percent(repeat, all)]

(* COUNT(DISTINCT r.order_id) over the left join                             *)
RefundedOrders(orders) == {o \in Delivered(orders) : Processed(o) # {}}
RefundRate(orders) ==
    LET refunded == Cardinality(RefundedOrders(orders)) all == Cardinality(Delivered(orders))
    IN  [refunded_order_count |-> refunded, delivered_order_count |-> all, rate |-> Percent(refunded, all)]

(* Every order placed is the denominator                                     *)
CancellationRate(orders) ==
    LET cancelled == Cardinality({o \in orders : o.status = "cancelled"}) all == Cardinality(orders)
    IN  [cancelled_order_count |-> cancelled, total_order_count |-> all, rate |-> Percent(cancelled, all)]

PaymentFailure(payments) ==
    LET failed == {p \in payments : p.status = "failed"}
    IN  [failure_count |-> Cardinality(failed), failed_amount |-> Total(failed, Amount)]
PaymentSuccess(payments) ==
    LET done == Cardinality({p \in payments : p.status = "completed"}) all == Cardinality(payments)
    IN  [success_count |-> done, attempt_count |-> all, rate |-> Percent(done, all)]
ConversionRate(sessions) ==
    LET converted == Cardinality({s \in sessions : s.converted = "true"}) all == Cardinality(sessions)
    IN  [converted_session_count |-> converted, session_count |-> all, rate |-> Percent(converted, all)]

(* Shipments are placed by delivered_at; NULL is in no period                *)
LateDelivery(shipments) ==
    LET late == Cardinality({s \in shipments : s.expected # Null /\ s.at > s.expected}) all == Cardinality(shipments)
    IN  [late_count |-> late, delivered_count |-> all, rate |-> Percent(late, all)]
DeliveryDays(s) == IF s.shipped = Null THEN Null ELSE s.at - s.shipped
(* AVG leaves out what is NULL.                                              *)
AverageDeliveryTime(shipments) ==
    LET known == {s \in shipments : DeliveryDays(s) # Null}
    IN  [average |-> RoundedRatio(100, Total(known, DeliveryDays), Cardinality(known)),
         shipment_count |-> Cardinality(shipments)]
Rating(r) == r.rating
AverageReview(reviews) ==
    [average |-> RoundedRatio(100, Total(reviews, Rating), Cardinality(reviews)), review_count |-> Cardinality(reviews)]
NewCustomers(customers) == [new_customer_count |-> Cardinality(customers)]

----------------------------------------------------------------------------
(* DEFAULT_METRICS that compile: the table each reads, the labels it may be  *)
(* grouped by and narrowed by. "documented" ones have no statement.          *)

MetricNames == {"revenue", "orders", "gross_profit", "gross_margin_pct", "units_sold", "average_order_value",
                "customer_count", "repeat_purchase_rate", "refund_rate", "cancellation_rate",
                "payment_failure_count", "payment_success_rate", "conversion_rate", "late_delivery_rate",
                "average_delivery_time", "average_review_rating", "new_customers"}
OneRowMetrics == {"repeat_purchase_rate", "revenue_growth", "target_attainment"}
Documented == {"net_revenue", "payment_failure_rate", "cart_to_checkout_rate", "checkout_to_purchase_rate",
               "customer_lifetime_revenue", "campaign_attributed_revenue", "campaign_roas",
               "inventory_stockout_rate", "return_rate"}
Source(metric) ==
    CASE metric \in {"payment_failure_count", "payment_success_rate"} -> "payments"
      [] metric = "conversion_rate" -> "web_sessions"
      [] metric \in {"late_delivery_rate", "average_delivery_time"} -> "shipments"
      [] metric = "average_review_rating" -> "reviews"
      [] metric = "new_customers" -> "customers"
      [] OTHER -> "orders"

Values(metric, rows) ==
    CASE metric = "revenue" -> Revenue(rows)
      [] metric = "orders" -> [order_count |-> Revenue(rows).order_count]
      [] metric = "gross_profit" -> GrossProfit(rows)
      [] metric = "gross_margin_pct" -> GrossMargin(rows)
      [] metric = "units_sold" -> UnitsSold(rows)
      [] metric = "average_order_value" -> AverageOrderValue(rows)
      [] metric = "customer_count" -> CustomerCount(rows)
      [] metric = "repeat_purchase_rate" -> RepeatCustomerRate(rows)
      [] metric = "refund_rate" -> RefundRate(rows)
      [] metric = "cancellation_rate" -> CancellationRate(rows)
      [] metric = "payment_failure_count" -> PaymentFailure(rows)
      [] metric = "payment_success_rate" -> PaymentSuccess(rows)
      [] metric = "conversion_rate" -> ConversionRate(rows)
      [] metric = "late_delivery_rate" -> LateDelivery(rows)
      [] metric = "average_delivery_time" -> AverageDeliveryTime(rows)
      [] metric = "average_review_rating" -> AverageReview(rows)
      [] metric = "new_customers" -> NewCustomers(rows)

Selected(table, period, filters) == {r \in table : InPeriod(r.at, period) /\ PassesAll(r, filters)}

(* One row per group that has a row, NULL being a group; without a dimension *)
(* always one row.                                                           *)
Bucket(row, dimension) == IF dimension = "period" THEN row.at \div MonthDays ELSE row.label
Ungrouped(metric, table, period, filters) == Values(metric, Selected(table, period, filters))
(* Mutant: rows without the label are in no group. *)
GroupedLabelled(metric, table, period, filters, dimension) ==
    LET rows == {r \in Selected(table, period, filters) : Bucket(r, dimension) # Null}
    IN  [b \in {Bucket(r, dimension) : r \in rows} |-> Values(metric, {r \in rows : Bucket(r, dimension) = b})]
Grouped(metric, table, period, filters, dimension) ==
    LET rows == Selected(table, period, filters)
    IN  [b \in {Bucket(r, dimension) : r \in rows} |-> Values(metric, {r \in rows : Bucket(r, dimension) = b})]

(* revenue_growth compares with the period of the same length just before.   *)
PriorPeriod(period) == [start |-> 2 * period.start - period.end, end |-> period.start]
RevenueGrowth(orders, period, filters) ==
    LET current == Revenue(Selected(orders, period, filters))
        prior == Revenue(Selected(orders, PriorPeriod(period), filters))
    IN  [current_revenue |-> current.revenue, prior_revenue |-> prior.revenue,
         rate |-> IF current.revenue = Null \/ prior.revenue = Null THEN Null
                  ELSE Percent(current.revenue - prior.revenue, prior.revenue)]

(* target_attainment: a full join of the months that have orders and the     *)
(* months that have a target, profit beside them. The profit CTE takes no    *)
(* filters.                                                                  *)
MonthOfRow(o) == o.at \div MonthDays
AttainedMonths(rows, wanted) == {MonthOfRow(o) : o \in rows} \cup {t.month : t \in wanted}
TargetAttainment(orders, targets, period, filters) ==
    LET rows == Delivered(Selected(orders, period, filters))
        all == Delivered(Selected(orders, period, <<>>))
        wanted == {t \in targets : InPeriod(t.month * MonthDays, period)}
        row(m) ==
            LET actual == Revenue({o \in rows : MonthOfRow(o) = m})
                profit == GrossProfit({o \in all : MonthOfRow(o) = m}).gross_profit
                goal == {t \in wanted : t.month = m}
                target == IF goal = {} THEN Null ELSE (CHOOSE t \in goal : TRUE).revenue_target
            IN  [revenue_actual |-> actual.revenue, revenue_target |-> target,
                 revenue_attainment |-> Percent(actual.revenue, target), gross_profit_actual |-> profit]
    IN  [m \in AttainedMonths(rows, wanted) |-> row(m)]

----------------------------------------------------------------------------
(* Requests: what compile_metric accepts. A filter is [field, operator,      *)
(* listed, value], its value a sequence of tags ("text", "number", "flag"),  *)
(* of one when it is not a list.                                             *)

LabelOperators == {"eq", "ne", "in", "not_in"}
AllOperators == LabelOperators \cup {"gt", "gte", "lt", "lte"}
MaxDimensions == 3
MaxFilters == 8
MaxMembers == 50
Members == {"in", "not_in"}

(* A definition, as far as a request can see it: the numbered campaign, the  *)
(* labels, the buckets of its period.                                        *)
DimensionSpecs(metric) ==
    CASE metric \in OneRowMetrics -> {}
      [] Source(metric) = "orders" /\ metric # "units_sold" -> {"period", "country", "status"}
      [] metric \in {"units_sold", "average_review_rating"} -> {"period", "category", "product"}
      [] metric = "payment_failure_count" -> {"period", "payment_method", "failure_reason", "provider"}
      [] metric = "payment_success_rate" -> {"period", "payment_method", "provider"}
      [] Source(metric) = "web_sessions" -> {"period", "country", "device", "channel"}
      [] Source(metric) = "shipments" -> {"period", "warehouse", "carrier"}
      [] Source(metric) = "customers" -> {"period", "country", "acquisition_channel"}
FilterSpecs(metric) ==
    CASE metric = "target_attainment" -> {"country"}
      [] metric = "units_sold" -> {"country", "category", "product"}
      [] Source(metric) = "orders" -> {"country", "shipping_country", "campaign_id"}
      [] Source(metric) = "web_sessions" -> {"country", "device", "channel", "campaign_id"}
      [] OTHER -> DimensionSpecs(metric) \ {"period"}
FilterOperators(field) == IF field = "campaign_id" THEN AllOperators ELSE LabelOperators
ValueType(field) == IF field = "campaign_id" THEN "number" ELSE "text"
Grains(metric) ==
    IF metric = "target_attainment" THEN {"month"}
    ELSE IF metric \in OneRowMetrics THEN {} ELSE {"day", "week", "month", "quarter", "year"}

(* A request as it is parsed                                                 *)
IsRequest(r) ==
    r \in [dimensions : Seq(STRING), grain : STRING,
           filters : Seq([field : STRING, operator : STRING, listed : BOOLEAN, value : Seq(STRING)])]

CheckValueType(f) == \A i \in DOMAIN f.value : f.value[i] = ValueType(f.field)

(* The requests MetricFilter and MetricParameters let in *)
WellShaped(f) ==
    /\ f.listed = (f.operator \in Members)
    /\ Len(f.value) \in 1..MaxMembers
ValidRequest(r) ==
    /\ Len(r.dimensions) <= MaxDimensions /\ Len(r.filters) <= MaxFilters
    /\ Cardinality({r.dimensions[i] : i \in DOMAIN r.dimensions}) = Len(r.dimensions)
    /\ \A i \in DOMAIN r.filters : WellShaped(r.filters[i])

Compiles(metric, r) ==
    /\ metric \notin Documented
    /\ \A i \in DOMAIN r.dimensions :
          /\ r.dimensions[i] \in DimensionSpecs(metric)
          /\ r.dimensions[i] = "period" => r.grain \in Grains(metric)
    /\ \A i \in DOMAIN r.filters :
          /\ r.filters[i].field \in FilterSpecs(metric)
          /\ r.filters[i].operator \in FilterOperators(r.filters[i].field)
          /\ CheckValueType(r.filters[i])

(* Bound values by name: filter_<index> or filter_<index>_<position>.        *)
Bound(r) ==
    UNION {IF r.filters[i].listed THEN {<<i - 1, j - 1>> : j \in DOMAIN r.filters[i].value} ELSE {<<i - 1>>} :
              i \in DOMAIN r.filters}

----------------------------------------------------------------------------
(* execute: rows are fetched in batches of at most 256 and one more than the *)
(* limit, and the reading stops at the first row over either bound.          *)

Fits(kept, bytes, size, limits) == kept < limits.rows /\ bytes + size <= limits.bytes

Prefix(sizes, k) == SubSeq(sizes, 1, k)
Bytes(sizes, k) == SumFunctionOnSet(sizes, 1..k)
ExecuteQuery(sizes, limits) ==
    LET over == {k \in 1..Len(sizes) : ~ Fits(k - 1, Bytes(sizes, k - 1), sizes[k], limits)}
    IN  IF over = {} THEN [rows |-> Len(sizes), truncated |-> FALSE]
        ELSE [rows |-> Min(over) - 1, truncated |-> TRUE]

(* The evidence and the display of a recomputed metric: a table unless one   *)
(* row answers an ungrouped request, whose first eight values become cards.  *)
MaxCards == 8
Display(dimensions, sizes, limits, columns) ==
    LET got == ExecuteQuery(sizes, limits)
    IN  [type |-> IF dimensions # <<>> \/ got.rows # 1 THEN "table" ELSE "kpi",
         rows |-> IF got.rows = 0 THEN 1 ELSE got.rows,
         cards |-> IF columns < MaxCards THEN columns ELSE MaxCards,
         row_count |-> got.rows, truncated |-> got.truncated]

----------------------------------------------------------------------------
AdditiveFields(v) == DOMAIN v \ {"rate", "average", "customer_count", "repeat_customer_count"}
Additive(v, f) == ZeroIfNull(v[f])

(* Half-open periods: two halves of a period share no row and lose none, so  *)
(* what counts or sums rows adds up, and a customer of both is counted once. *)
HalvesAddUp(metric, table, period, filters) ==
    \A middle \in (period.start + 1)..(period.end - 1) :
        LET whole == Ungrouped(metric, table, period, filters)
            before == Ungrouped(metric, table, [period EXCEPT !.end = middle], filters)
            after == Ungrouped(metric, table, [period EXCEPT !.start = middle], filters)
        IN  /\ \A f \in AdditiveFields(whole) : Additive(whole, f) = Additive(before, f) + Additive(after, f)
            /\ "customer_count" \in DOMAIN whole =>
                  /\ whole.customer_count <= before.customer_count + after.customer_count
                  /\ whole.customer_count >= Max({before.customer_count, after.customer_count})

(* A grouped report accounts for every row of the ungrouped one, those with  *)
(* no label included.                                                        *)
GroupsAddUp(metric, table, period, filters, dimension) ==
    LET groups == Grouped(metric, table, period, filters, dimension)
        whole == Ungrouped(metric, table, period, filters)
    IN  \A f \in AdditiveFields(whole) :
            Additive(whole, f) = SumFunction([b \in DOMAIN groups |-> Additive(groups[b], f)])

(* A filter and its opposite split the rows that have a label; the members   *)
(* of a list are each counted once.                                          *)
FiltersSplit(metric, table, period, values) ==
    LET by(op, v) == Ungrouped(metric, table, period, <<[operator |-> op, value |-> v]>>)
        labelled == Ungrouped(metric, {r \in table : r.label # Null}, period, <<>>)
    IN  \A f \in AdditiveFields(labelled) :
          LET one(v) == Additive(by("eq", v), f)
          IN  /\ \A v \in values : Additive(labelled, f) = one(v) + Additive(by("ne", v), f)
              /\ Additive(by("in", values), f) = SumFunction([v \in values |-> one(v)])
              /\ Additive(labelled, f) = Additive(by("in", values), f) + Additive(by("not_in", values), f)

(* Hundredths of a percent, up to all of it                                  *)
Percents == 0..10000
(* A rate is a share of its rows, absent exactly when there are none.        *)
RatesAreShares(metric, table, period, filters) ==
    LET rows == Selected(table, period, filters) v == Values(metric, rows)
        none == IF metric \in {"refund_rate", "repeat_purchase_rate"} THEN Delivered(rows) = {} ELSE rows = {}
    IN  "rate" \in DOMAIN v /\ metric # "gross_margin_pct" =>
            IF none THEN v.rate = Null ELSE v.rate \in Percents

(* An average lies between the least and the greatest value averaged.        *)
AveragesLieBetween(metric, table, period, filters) ==
    LET rows == Selected(table, period, filters) v == Values(metric, rows)
        seen == CASE metric = "average_order_value" -> {o.total : o \in Delivered(rows)}
                  [] metric = "average_delivery_time" -> {DeliveryDays(r) : r \in rows} \ {Null}
                  [] metric = "average_review_rating" -> {r.rating : r \in rows}
                  [] OTHER -> {}
    IN  "average" \in DOMAIN v =>
            IF seen = {} THEN v.average = Null ELSE 100 * Min(seen) <= v.average /\ v.average <= 100 * Max(seen)

(* Growth: what one period calls prior is what the period before reports as  *)
(* its own, and the two share no day.                                        *)
GrowthChains(orders, period, filters) ==
    LET prior == PriorPeriod(period) growth == RevenueGrowth(orders, period, filters)
    IN  /\ prior.end = period.start /\ prior.end - prior.start = period.end - period.start
        /\ growth.prior_revenue = RevenueGrowth(orders, [start |-> period.start - (period.end - period.start), end |-> period.start], filters).current_revenue
        /\ growth.rate # Null => (growth.rate > 0 => growth.current_revenue > growth.prior_revenue)

(* target_attainment and the metrics of the same name agree month by month.  *)
AttainmentAgrees(orders, targets, months) ==
    LET report == TargetAttainment(orders, targets, [start |-> 0, end |-> months * MonthDays], <<>>)
    IN  \A m \in 0..(months - 1) :
          LET period == [start |-> m * MonthDays, end |-> (m + 1) * MonthDays]
              revenue == Ungrouped("revenue", orders, period, <<>>)
          IN  /\ m \in DOMAIN report <=> (revenue.order_count > 0 \/ \E t \in targets : t.month = m)
              /\ m \in DOMAIN report =>
                    /\ report[m].revenue_actual = revenue.revenue
                    /\ report[m].gross_profit_actual = Ungrouped("gross_profit", orders, period, <<>>).gross_profit

Reversed(q) == [i \in DOMAIN q |-> q[Len(q) + 1 - i]]
Turned(f) == IF f.listed THEN [f EXCEPT !.value = Reversed(@)] ELSE f
(* Whether a request compiles does not depend on the order of its filters,   *)
(* of its dimensions or of the members of a list.                            *)
CompilesInAnyOrder(metric, r) ==
    LET turned == [r EXCEPT !.dimensions = Reversed(@), !.filters = [i \in DOMAIN @ |-> Turned(@[i])]]
    IN  /\ Compiles(metric, r) = Compiles(metric, turned)
        /\ Compiles(metric, r) = Compiles(metric, [r EXCEPT !.filters = Reversed(@)])

(* Every value a request carries is bound under a name of its own.           *)
EveryValueIsBound(r) ==
    Cardinality(Bound(r)) =
        SumFunction([i \in DOMAIN r.filters |-> IF r.filters[i].listed THEN Len(r.filters[i].value) ELSE 1])

(* What the executor returns is the longest prefix within both bounds, and   *)
(* it says so exactly when a row is missing.                                 *)
TruncationIsTold(sizes, limits) ==
    LET got == ExecuteQuery(sizes, limits)
    IN  /\ got.rows <= limits.rows /\ Bytes(sizes, got.rows) <= limits.bytes
        /\ got.truncated <=> got.rows < Len(sizes)
        /\ got.truncated => got.rows = limits.rows \/ Bytes(sizes, got.rows + 1) > limits.bytes

=============================================================================
