SPECIFICATION ShellSpec
CONSTANTS
  MAX_TASKS = 4
  MAX_OPEN_FILES = 3
  OPEN_LIMIT = 4
  ORPHANS = FALSE
  Programs = {"init", "sh", "echo", "hello", "ls", "cat"}
  Labels = {"main"}
  USTACK = 52
  BAD_ARGV = FALSE
  PGSIZE = 60
  PTR = 4
  MAX_ARGC = 8
  NUL = NUL
  SPACE = SPACE
  NL = NL
  e = e
  s = s
  h = h
  l = l
  c = c
  j = j
  o = o
  Letters = {e, s, h, l, c, j, o}
  BUFSIZE = 10
  MAX_ARG = 4
  Elf <- MCElf
  FileNames <- MCFileNames
  CONSOLE <- MCConsole
  Lines <- MCLines
  MAX_FAILED = 1
  NEST = 1
INVARIANT ResumesIntact
INVARIANT ParentIsTask
INVARIANT NoWaitCycle
INVARIANT ArgsArrive
INVARIANT TokensAreWords
INVARIANT Foreground
INVARIANT NeverFull
PROPERTY PromptReturns
