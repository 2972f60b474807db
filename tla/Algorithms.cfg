SPECIFICATION Spec
INVARIANTS FileContents ShellRuns HeapTiled ImageSound  DirectoryIsMap  ScreenShown NoneStuck
CHECK_DEADLOCK FALSE
