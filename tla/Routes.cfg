SPECIFICATION Spec
CONSTANTS
    Runs = {r1, r2}
    KeyFile <- MCKeyFile
    MaxSetups = 2
    Nothing = Nothing
    Torn = Torn
    Confs <- MCConfs
    FirstFiles <- MCFirstFiles
    BuiltIn = {"open"}
    ScriptFiles <- MCScriptFiles
    FirstScripts <- MCFirstScripts
    Recipients <- MCRecipients
    Lasting <- MCLasting
    Reports <- MCReports
    MaxMoves = 2
INVARIANTS
    BounceComesHome
    PostsReachTheirList
    SameStart
    SignaturesVerify
CHECK_DEADLOCK FALSE
