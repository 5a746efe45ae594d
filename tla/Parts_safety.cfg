CONSTANTS
    Lines = {"PIR", "RELAY1", "RELAY2", "RELAY3", "RELAY4", "CONTACT1", "CONTACT2", "ARMING"}
    MaxSecond = 2
    MaxPhotos = 3
    Threads = {t1, t2}
    A = A
    Master = t1
    MaxTrouble = 1
    MaxSetup = 3
    MaxSema = 1
SPECIFICATION PartsSpec
INVARIANTS
    DrivenOnlyIfAsked
    ServicesCovered
    EndsClean
    
    TmpAccounted
    DistinctSecondsKept
    WrapperRight
