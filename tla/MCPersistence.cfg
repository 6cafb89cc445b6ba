CONSTANTS
    a = a  b = b  u1 = u1  r1 = r1  d1 = d1  p1 = p1
    Users = {u1}
    Anon = Anon
    Runs = {r1}
    Visible <- MCVisible
    Reserve <- MCReserve
    Discoveries = {d1}
    Posts = {p1}
    Kinds = {"save", "unsave", "dismiss", "undo", "click", "share"}
    QueueCap = 2
    MaxEvents = 2
    MaxFaults = 1
    None = None
SPECIFICATION Spec
INVARIANTS TypeOK ReplyHonoursDismissals PurgedStaysPurged ListsFollowEvents
