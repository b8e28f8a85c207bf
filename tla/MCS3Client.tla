----------------------------- MODULE MCS3Client -----------------------------
(* A small instance of S3Client: one goroutine writes, another one reads     *)
(* and creates, over two names.                                              *)
EXTENDS S3Client

CONSTANTS writer, reader, d, big

Callers == {writer, reader}
Contents == {d, big}
TooLong == {big}
CurrentOnly == {2}

\* List has the prefix of the database, ListNames the one of the shadows.
BothPrefixes == {{1, 2}, {2}}

Once == [c \in Caller |-> 1]

Call(op, k) == [NoRequest EXCEPT !.op = op, !.key = k]
Put(op, k, v) == [Call(op, k) EXCEPT !.data = v]
Copy(k, l) == [Call("copy", k) EXCEPT !.dst = l]
List(prefix) == [NoRequest EXCEPT !.op = "list", !.prefix = prefix]

\* The size limit is for tables (1), not for CURRENT (2).
MutatingCalls == {Put("put", 1, big), Put("put", 2, big), Call("remove", 2),
                  Copy(1, 2)}
ReadingCalls == {Call("get", 2), Call("exists", 2), List({1, 2}), List({2}),
                 Put("putNew", 2, d)}

WriteAndRead == [c \in Caller |-> IF c = writer THEN MutatingCalls ELSE ReadingCalls]
=============================================================================
