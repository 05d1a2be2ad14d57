SPECIFICATION SessionSpec
CONSTANTS
    MaxAddress = 2
    Skipped = Skipped
    MaxLines = 2
    Hosts = {h}
    NoHost = NoHost
    Users = {user1, user2}
    NoUser = NoUser
    Values = {on}
    Default = Default
    Paths = {path1, path2}
    Files = {file1}
    Names = {name1, name2}
    FirstName = name1
    MaxJobs = 1
    MaxAlerts = 1
PROPERTY
    FilesAreReported
