CONSTANTS
    p1 = p1  p2 = p2  f1 = f1  ann = ann  bob = bob
    v1 = v1  v2 = v2  v3 = v3  v4 = v4
    NoVersion = NoVersion
    Posts = {p1, p2}
    Timestamp <- Times12
    Users = {ann, bob}
    Author <- ByAnn
    Mentions <- ToBob
    Follows = {f1}
    Follower <- BobFollows
    Followee <- AnnFollowed
    Versions = {v1, v2, v3, v4}
SPECIFICATION FairSpec
INVARIANTS StoredFirst FollowersFollow DeliveredExactly
PROPERTIES NothingLost RequestsEnd
CHECK_DEADLOCK FALSE
