SPECIFICATION FairSpec
CONSTANTS
    c1 = c1
    c2 = c2
    c3 = c3
    place = place
    rate = rate
    ticket = ticket
    key = key
    Callers = {c1, c2, c3}
    Buckets = {place, rate}
    Limit <- LimitOf
    Under <- UnderOf
    Cost <- CostOf
    Keys = {key}
    Key <- KeyOf
    Tickets = {ticket}
    Ticket <- TicketOf
    Hold = 2
    Recheck = 2
    Throttles = {2}
INVARIANTS
    TypeOK
    LimitsHold
    NoSleepPastRoom
PROPERTIES
    EveryCallGranted
CHECK_DEADLOCK FALSE
