CONSTANTS
    e1 = e1
    e2 = e2
    e3 = e3
    Export = {e1, e2, e3}
    Seed = seed
    Hole = hole
    MaxTrouble = 2
    MaxTroubleShared = 0
    s1 = s1
    s2 = s2
    Session = {s1, s2}
    Origin = {"z"}
    User = {"admin", "ntc"}
    Refused = {"bad"}
    None = none
    Undef = undef
    MaxDeaths = 1
    MaxRuns = 2
    Files <- TheFiles
    Given <- TheZones
    u1 = u1
    g1 = g1
    g2 = g2
    Updater = {u1}
    Editor = {g1, g2}
    Owner = {"admin"}
    Xml <- TheXml
    Blank <- Empty0
    Corrupt = {2}
    Nothing = nothing
    Torn = torn
    MaxVersion = 2
    MaxCommands = 3
    MaxKills = 1
SPECIFICATION AdminSpec
SYMMETRY Symmetry
INVARIANTS AdminTypeOK LiveIsWhole ReadyIsWhole TornIsTold LeavesWhatItMeant ZoneFilesAgree DerivedInStep
PROPERTIES NeverRewritten CommitsOwn OwnZonesOnly
CHECK_DEADLOCK FALSE
