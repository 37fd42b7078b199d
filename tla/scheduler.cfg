\* The loop with two threads, which Asio allows; Crow has one for each io_context.
SPECIFICATION Spec
CONSTANTS
  Thread = {t1, t2}
  Acceptor = acceptor
  MaxPosts = 3
  MaxData = 2
INVARIANTS
    NobodySleepsOnWork
    ReadNotStuck
\* The threads leave run() once the server is stopped.
CHECK_DEADLOCK FALSE
