CONSTANTS
    root = root
    dir = dir
    file = file
    n1 = n1
    None = None
    Unlisted = Unlisted
    Path <- MCPath
    Child <- MCChild
    IsDir = {root, dir}
    Home = root
    Missing = {file}
    MaxCalls = 3
    Blank = {""}
    Field = {"path", "file_type", "mtime"}
    Operator = {"equals", "regex"}
    Value = {"", "v"}
    SortChoice = {"path", "uid"}
    TypedLimit = {0, 20000}
    ColumnChoice = {"path", "user"}
    Stored = {{}, {"path", "inode"}}
    Pasted <- MCPasted
    Linked = {"v"}
    MaxEdits = 2
    MaxQueries = 2
    Name = {n1}
    MaxRows = 2
SPECIFICATION UiSpec
INVARIANTS SupersededNeverLands RefusalIsShown ChildrenBelong AnswersLastAsked TextIsTheForm ServerTakesQuery ListIsServers PreviewIsCurrent
PROPERTIES LoadingEnds
