SPECIFICATION Spec
CHECK_DEADLOCK FALSE
CONSTANTS
    imu1 = imu1
    imu2 = imu2
    state = state
    imu = imu
    cookieTopic = cookieTopic
    json = json
    cookie = cookie
    Keys <- ThreeKeys
    Topics <- TwoTopics
    Settings = {json, cookie}
    Cookie = {cookie}
    NoSettings = NoSettings
    topicOf <- TheNames
    NodeStreams <- TwoKeys
    StaticStreams <- Configured
    MaxRequests = 3
    MaxActivations = 1
INVARIANT ForgetsRemoved
INVARIANT ServedWhileSubscribed
INVARIANT FollowsEvents
