----------------------------- MODULE MCTransfer -----------------------------
EXTENDS TransferInv

MCConn == 1 .. Runs

With(sizes, mMethods, sMethods, may) ==
  [sizes |-> sizes, masterMethods |-> mMethods, slaveMethods |-> sMethods, may |-> may]

\* Programs that run one after the other and are left alone.
MCUsual == {With({0, 1, 5}, Method, Method, {})}

\* Kills, reloads and sockets that are not made; runs that overlap and share a
\* socket.
MCFaults ==
  { With({0, 1, 3}, Method, Method, {"kill", "memory"}),
    With({1, 3}, Method, Method, {"kill", "reload"}),
    With({2}, {"fcntl"}, {"fcntl"}, {"masters", "slaves", "memory"}),
    With({3}, {"mmap"}, Method, {"slaves"}) }

\* A slave with mmap that may receive less than a page.
MCShort == {With({3}, {"fcntl"}, {"mmap"}, {})}
=============================================================================
