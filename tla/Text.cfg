SPECIFICATION Spec
CONSTANTS
  Pages <- MCPages
  Posts <- MCPosts
  Files <- MCFiles
  Slug <- MCSlug
CHECK_DEADLOCK FALSE
INVARIANTS ShowsTheProblem ShowsTheSolution KeepsTheCredentials
