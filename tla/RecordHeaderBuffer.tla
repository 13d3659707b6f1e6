------------------------- MODULE RecordHeaderBuffer -------------------------
(***************************************************************************)
(* common/container/record_header_buffer.{hpp,cpp}: a multiple-writer      *)
(* single-reader store of records.  Space is reserved in a ring buffer of  *)
(* bytes; a header that points at the reserved address is then written at  *)
(* the next index of m_headers.                                            *)
(*                                                                         *)
(* A buffer is a record value and each operator below is one critical      *)
(* section, or one atomic access, of the C++ methods.  The modules that    *)
(* own a buffer turn these into actions.  Bytes are abstracted to slots:   *)
(* every record is as large as a slot, an address is the slot's number,    *)
(* and Capacity is how many records fit.                                   *)
(***************************************************************************)
EXTENDS Integers, Sequences

CONSTANTS Capacity,     \* records that fit in an allocated buffer
          NoAddr,       \* nullptr
          NoRecord      \* memory nothing was ever placed in

ASSUME CapacityAssumption == Capacity \in Nat \ {0}
ASSUME NoAddrAssumption == NoAddr \notin Nat

Addr == 0 .. Capacity - 1

\* m_shared only keeps its shared holders: an exclusive section neither
\* blocks nor yields, so it is a single step, enabled when nobody shares.
\* m_index is the length of m_headers: the entries from m_index on are null.
Buffers(Records) ==
  [allocated : BOOLEAN,
   m_requested : Int,
   m_shared : Int,
   m_write_count : 0 .. Capacity,
   m_headers : Seq(Addr \cup {NoAddr}),
   memory : [Addr -> Records \cup {NoRecord}]]

\* A default-constructed buffer, and one after allocate(nbytes).
Unallocated ==
  [allocated |-> FALSE, m_requested |-> 0, m_shared |-> 0,
   m_write_count |-> 0, m_headers |-> << >>,
   memory |-> [a \in Addr |-> NoRecord]]

Allocate(b) == [b EXCEPT !.allocated = TRUE]

count(b) == b.m_write_count

NobodyShares(b) == b.m_shared = 0

\* emplace: "notify there was a request" and "remove notification of request".
Announce(b) == [b EXCEPT !.m_requested = @ + 1]
Withdraw(b) == [b EXCEPT !.m_requested = @ - 1]

\* emplace, under write_lock: m_buffer.request(size, align, false).
HasRoomOffByOne(b) == b.m_write_count <= Capacity   \* mutant
HasRoom(b) == b.m_write_count < Capacity
Reserve(b) == [b EXCEPT !.m_write_count = @ + 1]

\* emplace, after read_lock: m_index.fetch_add(1).
TakeIndex(b) == [b EXCEPT !.m_shared = @ + 1, !.m_headers = Append(@, NoAddr)]

\* emplace: placement new at the reserved address, the header at the index
\* that was taken, read_unlock.
Place(b, index, addr, value) ==
  [b EXCEPT !.m_shared = @ - 1,
            !.m_headers[index] = addr,
            !.memory[addr] = value]

\* get_record_headers: the indices of the non-null headers below m_index.  The
\* vector it returns points at those headers, in index order; it copies nothing.
RecordHeaders(b) == {i \in DOMAIN b.m_headers : b.m_headers[i] # NoAddr}

\* What the pointer to header i leads to.
Payload(b, i) == b.memory[b.m_headers[i]]

ClearKeepsIndex(b) == [b EXCEPT !.m_write_count = 0]      \* mutant

\* clear: the write count, every header and m_index go back to zero.
Clear(b) == [b EXCEPT !.m_write_count = 0, !.m_headers = << >>]

\* The records that a call of get_record_headers would lead to now.
Held(b) == {Payload(b, i) : i \in RecordHeaders(b)}
=============================================================================
