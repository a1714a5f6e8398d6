# mncommon in TLA+

mncommon is a C library of data structures and helpers: every client program
links it and calls it from one thread, and what can go wrong lies in pointers,
offsets and counters that several operations keep by hand, and in the order of
the calls. This directory models the parts that carry state, checks them with
TLC on small instances and proves some of the results for every instance with
TLAPS. Paths below are relative to the repository; the library is in `src/`.

## 1. Inventory

| part | state | operations | what is hard |
|---|---|---|---|
| hash table, `hash.c` | table of chains, `elnum`; per item `bucket`, `prev`, `next`, `key`, `value` | set, set unique, get, remove by key, delete by item, rehash, cleanup, fini, traverse, iterate, set operations | deletion works from an item's own links, so each operation must leave them right; callbacks that delete and insert; finalizers that veto |
| arena, `mpool.c` | array of chunks, current and last chunk, position | malloc, realloc, reset, init, fini | recycling of chunks after a reset, big items, growth of the array |
| byte stream, `bytestream.c` | buffer, `sz`, `eod`, `pos` | put (cat, printf, macros), read, write, send, advance, recycle, rewind | offsets into memory that grows and moves; short and failed system calls |
| line reader, `bytestream_aux.c` | a byte stream and the start of the current line | consume_lines, streams over borrowed memory | an offset kept across recycling; lines cut by reads |
| doubly-linked queue, `dtqueue.h` | head, tail, count; a link in every entry | enqueue, dequeue, pop, their fast forms, remove, insert | links of entries outside are stale; four cases of removal |
| singly-linked queue, `stqueue.h` | the same with one link | enqueue, dequeue, fast dequeue | stale links |
| red-black tree, `rbt.c` | nodes with colours, linked into a tree and into a list in key order | insert, find, remove, fini | two structures kept by hand; rotations of a tree whose colours are not to be relied on |
| bit trie, `btrie.c` | 64 roots by key length, nodes, volume | add, find, closest, traverse, remove, clean up | clean-up of empty branches; the climb to the nearest key |
| path-compressed trie, `pbtrie.c` | nodes with prefix and mask | add, find, next, previous, remove | masks, splits, duplicate keys, inner nodes left behind by a removal |
| array, `array.c` | elements, length, size of the block, two callbacks | set the length, get, increment, decrement, clear, reset | initialisers and finalisers in turn; two growth policies; callbacks that fail |
| heap, `heap.c` | an array, an order | push, pop, push and pop, sort, heapify, search | what each operation sifts |
| list, ring: `list.c`, `ring.c` | elements, capacity, cursor | as the array; move the cursor | empty containers |
| sketch and popularity set, `cm.c` | counters; a hash, `nleft`, thresholds | add, get; push, pop, peek | the threshold that decides between two pops; pop of an empty set |
| strings, `bytes.c` | reference count, cached hash | incref, decref, hash, copy, escapes | cached hash after a change |
| vectored stream, `vbytestream.c` | array of iovecs, two positions | read, write, printf, adopt, rewind | edges closed early; short writes, a second write, strings behind a partial edge |
| push JSON parser and packer, `json.c` | state, index, nesting, stack, current key | parse, callbacks, reset; pack pairs and items | three functions over one state; a text that ends anywhere; fixed room for what is packed |
| pull JSON parser, `jparse.c` | position, error position, arena | expect a value, an item, a member, a container; iterate; ignore | giving back what was not there; where an iteration ends |
| memory accounting, `memdebug.c` | counters per context | malloc ... free, scope | double counting |
| thread helpers, `pthread.h` | a robust mutex, a condition | lock, wait, timed wait | recovery from a dead owner |
| others | none worth a model | encodings, hashes, dumps, directory walks | |

The parts interact by calls: the hash table keeps its slots in an array; array,
hash and tries have variants that allocate from an arena; the heap and the ring
are arrays; the popularity set is a hash; the line reader drives a byte stream;
the parsers read from one. Callbacks go the other way: initialisers, finalizers,
comparators and traversal callbacks of the client run in the middle of an
operation, and a traversal callback of the hash may use the hash.

What makes each part correct is what section 3 checks for the parts that are
modelled; `PROJECT.json` lists for each part how far it is modelled, and under
`hazards` the places in the code where something can go wrong that a test would
hardly reach.

## 2. Modules

    Dict  <-implements-  Hash  <-extends-  MCHash;  Hash  <-extends-  HashProofs
    Fifo  <-implements-  ByteStream
                             ^--instance of--  LineReader  <-extends-  LineReaderProofs
                   ByteStream  <-extends-  MCStreams  --instance of-->  VByteStream
                                MCStreams  <-extends-  ByteStreamProofs
    DTQueue  <-extends-  MCQueues  --instances of-->  STQueue, List, Ring
                            ^--extends--  QueueProofs
    SortedSet  <-implements-  Rbt  <-extends-  MCRbt;  Rbt  <-extends-  RbtProofs
    BTrie  <-extends-  MCTries  --instance of-->  PBTrie;  BTrie  <-extends-  BTrieProofs
    Array  <-extends-  Heap  <-extends-  MCHeap  <-extends-  HeapProofs  --extends-->  MPool
        PriorityQueue  <-implements-  Heap;  MCHeap  --extends-->  PSet
    Json  <-extends-  JsonPack  <-extends-  MCJson;  Json  <-extends-  JsonProofs
    JParse  <-extends-  MCJParse;  JsonPack  --instance of-->  JParse

* **Hash** is `hash.c` pointer by pointer. `heap` maps the allocated items to
  their fields, `table` the slots to the first items, `st` says how the program
  died if it did (an assertion, or a write through an uninitialised pointer:
  an uninitialised field holds NULL or `Junk`). Each public function is an
  action; the callback of a traversal is the state between `TraverseStart`,
  `TraverseNext` and `TraverseStop`, in which the client may delete the item it
  was given and insert others. Finalizers may veto (`FiniFails`). `suspect`
  and `leaked` are history: they name the items that an operation left unfit
  for `hash_delete_pair` and those a vetoed clean-up lost, so that the invariants
  can say exactly where the code's promise ends. The `_mpool` variants and
  `hash_delete_pair_no_fini` expand the same macro bodies.
* **Dict** is what the client of Hash may count on: per key a stack of values,
  of which the newest is visible, and which a rehash turns around.
* **MPool** is `mpool.c` with the record `mpool` for the context and `arena`
  for the bytes each chunk was malloc'd with. Sizes are in bytes, rounded and
  headed as in the code.
* **ByteStream** is `bytestream.c`: the bytes in the buffer are represented by
  the number under which they were put, which makes loss, repetition and
  disorder visible. System calls and `vsnprintf` return any result they may.
  `fault` records that a -1 was added to an offset; after that the stream is not
  used any more. **Fifo** is the queue it implements between `pos` and `eod`.
* **VByteStream** is `vbytestream.c`: `iov` holds for each element of the array
  the string it points at and `iov_len`, `veod` and `vpos` the two positions.
  `wrote` is what `writev` took, `doubt` what a client did that the stream is not
  up to: print an empty text into a fresh iovec, adopt a string behind a partial
  edge, rewind, read, take a failed `vsnprintf`, a short write, or another write
  after one that left a partial edge. **MCStreams** checks the two streams.
* **LineReader** is `bytestream_consume_lines` step by step, with the stream's
  own actions for reading, advancing and recycling. `nl` is the set of bytes
  that are '\n', chosen as they are read. Callbacks may stop the call.
* **DTQueue** is `dtqueue.h`. Entries outside of every queue keep what their
  links last held; `order` is history, the sequence a queue should hold.
* **STQueue** is `stqueue.h`, with a client that breaks two rules: it may put an entry
  with an old link into an empty queue, and use a queue that the fast macro has
  emptied. `mark` is history: how far a queue can be relied on. One gone astray is
  initialised before it is used again.
* **List** is `list.c`: `mem` maps the allocated entries to their links and to whether
  their data is initialised, the record of a list holds head, tail and the index
  below `elnum`. The initialiser may refuse any entry; `unsure` names the lists
  in which it did, or an item of which was cleared, and `leaked` the entries that are
  lost then. **Ring** is `ring.c` with one iterator and the `%` of C; `seen` is
  history, the elements of a walk. **MCQueues** checks queues of both kinds, lists
  and a ring.
* **Rbt** is `rbt.c`: `tree` holds the root, the three tree links and the red
  nodes, `list` the ends and the two list links, `nelem` the count. The mirrored
  halves of the rotations and adjustments are written once, with the side as a
  parameter; the recursion of the adjustments is a recursive function on trees,
  so that an insertion or a removal is one action with all it does. A NULL
  pointer followed by the code would stop TLC. The key of a node is what it was
  initialised with. **SortedSet** is what the client sees.
* **BTrie** is `btrie.c`. A node is named by the place it is made for, a root
  and the bits below it, and `mem` holds the fields of the allocated nodes;
  whether its links lead to that place is what `WellLinked` asks. The two
  mirrored searches for a neighbour are one operator with the side as a
  parameter. The client writes `node->value` itself: `stored` is history.
  **PBTrie** is `pbtrie.c` with numbers of `Width` bits for keys and masks;
  a bitwise and with a mask cuts off a remainder. `alive` turns false when an
  assertion of `pbtrie_add_node` fails. **MCTries** checks the two in one run.
* **Array** is `array.c` with the state of each slot of the block (raw,
  initialised, finalised, or a number the client wrote) and sizes in bytes.
  `suspect` is history: the slots for which four operations do not call
  initialiser and finaliser in turn (`array_get_safe`, `array_ensure_datasz`,
  `array_init` and `array_clear` when a callback fails, and the dirty
  variants, where this is the client's duty). **Heap** is `heap.c` over this
  array, with the loops of siftdown as recursive functions; **PriorityQueue** is
  what its client counts on. **MCHeap** checks an array by itself, a heap, or a
  popularity set.
* **PSet** is `cm.c`: the counters of the sketch, with the cells `fasthash` picks
  chosen at the start, and the popularity set, a function from its keys to their
  counts, from which a pop takes any least one, as the order of the hash may have
  it. `Tell` is one turn of the loop of `testcm.c`; a client may also push without
  a look, and pop. `count` and `last` are history: how often a key was read, and
  the count with which it was offered last.
* **Json** is the push parser: one action is one turn of the loop of the
  innermost of `json_parse`, `json_parse_obj` and `json_parse_array`, `frames`
  their calls; every callback may fail. A text is a sequence of symbols, one for
  each class of byte the parser tells apart, a word being one symbol.
  **JsonPack** adds the packing functions and their client: what
  they write, with the room they ask for in bytes, is handed to the push parser
  and, as an instance, to the pull parser.
* **JParse** is the pull parser. What a function of the code does with the
  cursor is a recursive function of positions; a call the client makes is an action, a
  frame of `stack` a container whose callback runs. Each callback may ask for
  any item or member, have one that failed ignored instead, and return. Data
  arrives in pieces in the code, but the parser keeps offsets and asks for more
  where it finds none, so that the pieces cannot be told apart: what is left is
  the end of the data, at which `bytestream_consume_data` fails. Number values,
  the codes of the diagnostics and the dumps are left out.
* **...Proofs** hold the TLAPS proofs about the module in their name;
  **QueueProofs** those about DTQueue and about the instances of STQueue and Ring in
  MCQueues.

Names follow the code: `SetItemUniq` is `hash_set_item_uniq`, `NewChunk` is
`new_chunk`, `dtq_head` is the field. The `map` of `PROJECT.json` gives the
lines for each definition. Operators introduced as `Mutant:` are plausible bugs
of the definition that follows them; each property of a passing run is violated
by one of them.

## 3. Runs

| run | instance | distinct states | what it shows |
|---|---|---|---|
| `hash` | 3 items, 3 keys of which two always collide, 1 value and the NULL of sets, tables of 1 and 2 slots, vetoing finalizers | 126277 | chains well linked, every item accounted for and on its chain, no item visited twice or left out, deaths only where `suspect` or `leaked` says so, Dict implemented |
| `hash_remove` | the same, without set-unique | violation | `assert(hit->bucket != NULL)` fails after remove_item |
| `mpool` | chunks of 32 bytes, requests 5, 12, 24 (fills a chunk) and 40 (big), at most 6 chunks | 33056 | blocks apart, in their chunk, array exact, recycling first |
| `bytestream` | growsz 2, page 2, requests up to 3, 10 bytes; or iovecs with growsz 3, 4 bytes, IOV_MAX 3, two misuses | 322553 | offsets in order, Fifo implemented; the vectored stream writes what was put, assertions explained |
| `line_reader` | growsz 2, page 2, 9 bytes, any of them '\n' | 125527 | lines whole, none missed, memory bounded, every line delivered |
| `queues` | 2 queues of either kind, 3 entries; or 2 lists of up to 3, 4 cells, 2 failures; or a ring of up to 4 | 47958 | queues well linked, counted, no false orphan, through any use of the macros; chain and index of a list agree; walks round a ring |
| `rbt` | 7 nodes, two of the same key | 14740 | tree ordered and well linked, list its in-order walk, searches exact, SortedSet implemented, through any insertions and removals |
| `rbt_colours` | the same | violation | a red node below a red one after three insertions |
| `jparse` | 10 documents, 4 of them also cut short at every place and with each symbol replaced by each of five | 12850 | what is ignored ends where the value ends, the cursor is in the container whose callback runs, nothing that is there is refused, elements are handed out once, every parse ends |
| `json` | 4 texts cut short, with a NUL, or with a symbol replaced; all documents of up to 6 callbacks packed from 2 keys, 3 strings, 2 numbers, words and both containers | 487393 | callbacks, counter, stack and recursion agree, consistent means whole, what is packed is read by both parsers, every parse ends |
| `tries` | keys of 4 bits, 7 of them used, below all four roots; masks of 3 bits, keys 1, 4, 5, 6 between head and tail, 10 nodes | 41899 | links and volume, nearest keys, no branch left behind; keys found and traversed after removals, assertions explained |
| `heap` | elements of 3 bytes, threshold 8, arrays of up to 4 and heaps of up to 6 elements, 3 values; 3 keys read up to 3 times, 2 rows of 2 counters, room for 2 | 392136 | room for what is counted, callbacks in turn, PriorityQueue implemented; the most popular keys kept |

One run checks several questions at once. The type invariant of a component is
the first conjunct of one of its properties, but for `bytestream` and `queues`, whose
types are proved (section 4); `BlocksSound` says that the blocks of an arena lie apart
and that neither the position nor a block runs past a chunk, `ReadersTruthful` that length, emptiness test
and orphan test of a queue are true;
`TraversalComplete` also says that no item is visited twice,
`WellLinked` of Hash that each item is on the chain of its key, `SearchTree`
that searches find what is listed, `LinesWhole` that a line starts where a line
starts, `ImplementsPriorityQueue` that the heap order holds and `heap_get` finds
what is there. `PopularKept` says that the set counts its room, uses it, gets
counts that are never too small, and holds no key less popular than one it turned
away; `VectorKept` that no assertion fails and no byte is lost, each but for the
misuses in `doubt` that it names. `tries`, `heap`, `queues` and `bytestream` put components
into one run that share nothing: `trie` and `use` say which of them a behaviour is
one of.

*Bounds.* Three items on one chain have a head, a middle and an end, and a
fourth adds no new neighbourhood; two slots make a rehash split and join
chains. Six chunks let the array of chunks double twice and leave recycled
chunks of both sizes in every order. In the streams a page and an increment of 2
let every operation cross several of each with 9 or 10 bytes, and recycling
happen again and again; `MaxBytes` bounds the bytes put, `MaxChunk` the chunks,
`Chunk` the size of one request. Three entries in two queues reach all cases of
removal and insertion and move entries with stale links to the other queue. Four
cells make a list of one entry with two that were refused around another that was
not, or two lists of two; a chain is longer than its index by any part of it.

The keys of 4 bits have neighbours below the same node, across a subtree and
below another root; the 3 bits of the masks allow a split at each bit, and ten
nodes leave room for six additions after any removals. Elements of 3 bytes make
block sizes that are no multiple of the element; with a threshold of 8 bytes
arrays of up to 4 pass between doubling and exact growth in both directions, and
a heap of 6 has three levels, of which the last is not full. Three keys and room for
two make every push into a full set push one out, at equal counts and at
different ones; two counters in a row make keys collide in one row, in both or in
none, so that counts are too large by any amount, and `MaxLines` bounds the reads
of a key and the pops in vain. Iovecs of 3 bytes take one text, two, or the next
edge; `IovMax` is met by three of them; two misuses (`MaxDoubts`) between two
beginnings are enough for each to do its harm, and for a read, which needs a
rewind before it. The texts of the parsers
have both containers, empty and not, inside each other, each kind of value,
blanks, an escaped quote, a bracket inside a string; cutting and replacing makes
every kind of broken text out of them. In `json` no boolean is packed as a member
of an object (`BoolPairs` is empty): any would violate `PackedIsRead`, see below.

Seven nodes, of which six can be in a tree together, give trees of every shape
the adjustments make on up to four levels and more, since the trees are not
balanced, and reach each case of both adjustments on either side, but for
one path: a red sibling after the rotation of case 2 of the removal takes eight
nodes in the tree.

*Deadlock* is checked where the system may go on for ever (`mpool`,
`line_reader`, `queues`, `rbt`, `jparse`, `json`, `heap`). The hash runs and
`tries` switch it off because a failed assertion ends the program, the
byte-stream run because a spoiled stream is given up and `MaxBytes` ends a run.

*Fairness* is stated where the code runs to its end on the thread that called
it: weak fairness of the loop's own steps in LineReader, of the turns of the
parser in Json, of the calls of a parse in JParse, whose callbacks are taken to
return. Nothing makes the client call again, so `LinesDelivered` allows for the
end of the call, and `ParseEnds` speaks of a parse that was begun.

*Symmetry* is used for the items of Hash, which are interchangeable memory
cells; no liveness property is checked there.

*Findings.* The violation runs show two defects, described in `PROJECT.json`:
the head without a bucket in `hash.c`, and case 4 of the insertion in `rbt.c`,
after which the tree is a search tree but no red-black tree. (Removal loses the
black heights, too; and `RBT_DUPLICATE`, which is -1, is not what `rbt_insert`
returns for a duplicate, which is 0, while -1 tells of a left child.)

What else modelling met, each built into the model as the code has it:

* `hash_set_item_uniq` links a new item with `prev` and `bucket` uninitialised
  (`hash.c:174`); `DeathsExplained` counts it among the causes of a death.
* After a reset a big item may get a recycled chunk that is smaller
  (`mpool.c:45`); `InBounds` excepts just these.
* `bytestream_send` adds a failed `send` to the position (`bytestream.c:205`);
  `Bounds` holds until then.
* `btrie_find_closest` ends at the node of the key itself, with a value or
  without, unless it is the root of the keys of one bit.
* `pbtrie_find_exact` returns a node for a key that is not there, too: the place
  where it would go. `pbtrie_add_node` fails an assertion for a key that is there,
  and for one below an inner node that removals have emptied; the nodes removals
  leave behind are never freed, and `pbtrie_fini` frees none at all.
* `array_init` returns 0 when the initialiser fails; `array_get_safe` counts
  elements it has not initialised, or initialises some it does not count.
* `pset_pop` of an empty set hands out an item of its own stack, and makes room
  for one more than the set was made for (`lent.vain`); `pset_push` of an item
  whose key is there neither takes it nor hands it back.
* An initialiser that fails in `list_ensure_len` leaves its entry in the chain:
  `list_last` then gives an entry that is not counted and not initialised, and
  `list_fini` finalises it; in a list of length 0 the next growth loses the chain
  (`list.c:206`). `list_find` takes the index for an array of entries (`list.c:446`).
* `vbytestream_read` gives no iovec a string, since its loop starts at the end of
  the array that it has just enlarged (`vbytestream.c:178`), so that `readv` reads
  nothing, but into strings that a rewind left behind; nothing but a read can
  follow a rewind of a stream that held something (`vbytestream.c:241`, `345`).
* `vbytestream_adopt` puts a string behind a partial edge, and `eod` before it;
  `vbytestream_write` starts at the beginning of an iovec of which a part was
  written before, and goes on behind what a short write left. `VectorKept` fails
  for each of these that is taken out of its exceptions.
* `json_parse` consumes nothing when it is called again without `json_reset`
  after a whole text; every unknown word is null to the push parser, and only an
  escape that comes first in a string sets the flag. An error in an array in an
  array comes back as an error of the outer array, "more" included.
* `mnjson_bool_pair0` never fits the room it asks for, and a false member is
  spelt `flse` (`json.c:1211`).
* An empty array that is read as floats, as anything, or ignored item by item
  yields one number without a digit before it ends. A member that failed leaves
  the cursor behind its key, so that it cannot be asked for again.

## 4. Proofs

For any values of the constants, under the named assumptions of each module:

* **ByteStreamProofs** - the types, `Bounds`, `InOrder`, inductive together:
  the domain of the buffer is `0..eod - 1`, so that each put extends the
  numbering where the last one ended. From this `IsAFifo` proves that the stream
  implements Fifo: the bytes between `pos` and `eod` are a run of consecutive
  numbers, and lemmas on such runs say what each operation does to one.
  Of VByteStream `VectorIsKept`, for any growsz and `IOV_MAX`, both at once: the
  uses that end in a failed assertion and those that end in a wrong byte are not the same,
  so the invariant has a part for each of the two kinds of clients. For the first
  kind no iovec behind `eod` has a string, and so no assertion fails and `readv` gets
  no room; for the second the bytes written and those from `pos` to `eod`
  are a run of numbers again. What iovecs hold together is a recursive function of
  SequencesExt, of which lemmas (`GatheredSame`, `GatheredMore`) say that the iovecs
  behind do not matter and what one more adds. `VectorAssumption` is the assertion of
  `vbytestream_init` that growsz is positive.
* **HeapProofs** - of Array `RoomForAll` and `CalledInTurn`, for any size of elements,
  any threshold of the growth policy that is a power of two, and any bound on
  the length. The invariant adds to the first that nothing is counted outside
  the time between init and fini. A lemma shows that the computed size is
  enough: `SmallBits` doublings take 1 to the threshold, and the least such size
  exists because the naturals are well-founded. Then a lemma for each of the
  ensure bodies says what a slot holds afterwards in terms of what it held
  before, and one step per operation reads off the invariant.
  Of Heap `ImplementsPriorityQueue`, for any numbers as values and any bound on the
  length. While siftdown moves an element down, one node may be greater than its children,
  and the parent of this node is no greater than they are (`Sinking`): an exchange with
  the least child hands this on to that child (`SinkingGoesOn`), and where the element rests
  every pair is in order (`SinkingEnds`). The loops of siftdown start where no node behind
  has a child and put one more node into the order each (`SiftFromHeaps`), so that
  they make a heap of any elements: this is why `heap_push` and `heap_pushpop`,
  which sift on the way to the first node whatever they find, are right. In a heap
  the first element is a least one, and `heap_get` may leave out the branches below
  greater elements, since from an element one climbs over no greater one to the first
  (`GetFinds`). What is pushed and popped is compared value by value: an exchange
  is a bijection of the places of each value (`ExchangeShuffles`), and the bag is
  a function of these counts (`BagMore`). The invariant `HeapInv` adds
  that the elements are values and initialised, so that the array under a heap keeps
  its promises as well (`ArrayUnderHeap`).
  Of PSet `PopularKept`, for any set of keys, any sketch and spread of
  the hash, any room and threshold, under `PSetAssumption`, which the theorem
  states. The invariant is about `fast_pop_thresh`: it lies between the counts of
  the keys outside, as last offered, and those of the keys inside, and a set with
  room left has it at minthresh. With it the check against the threshold alone
  is enough to turn a key away. The counts in the set never run ahead of the
  counters, so that a key that is read again never falls in the order.
  Of MPool `TypeOK`, `ArenaExact`, `BlocksSound`, `RecycledFirst`. None is
  inductive alone. The strengthening says that every block of the current chunk
  ends at or before the position, that every block lies in a chunk up to the
  current one, and what the sizes of the chunks are: with it a new block, which
  starts at the position, meets no other one. `RecycledFirst` follows step by
  step: the array changes only where a chunk is added behind the last one.
* **HashProofs** - `Accounted`, `WellLinked`, `DeathsExplained`,
  `TraversalComplete` and the refinement `ImplementsDict`, for any set of items, any
  keys, hash function and table sizes, any finalizer. `HashAssumption` asks for finitely many items, positive sizes, and
  NULL and `Junk` that are no item and no slot. The argument names the chains:
  `ch[b]` is the sequence of the items that `next` leads through from slot `b`.
  `Shape` says that the fields in the heap are those of `ch`, that no item stands twice
  in it and that what is allocated is on it or leaked; `Linked` what `prev`, `bucket`
  and the place of each item are, but for the heads in `suspect`. An operation is
  first shown to turn `ch` into another such `ch` (an item pushed in front of a
  chain, one dropped from its middle or its head, all of them gone, each hung up
  again in a fresh table), whose invariant follows from facts about sequences; and
  only then are the walks along `next`, by which the code finds things, shown to
  follow the chains. `Visits` says where a traversal stands: on a place of a chain
  or between two, with everything it still owes ahead of that place and everything
  it has seen gone or behind it; insertions happen at the heads, behind it, and the only item
  the callback can delete is the one it stands on.
  The refinement reads the stack of a key off its chain (`StackOf`), and lemmas say
  how the stack of a joined, cut or extended chain comes from its parts. A fresh
  item puts its value on top; the first match of a search is the item under the top; an
  item taken out of the chain takes one value out of the stack; and the traversal
  passes, for each key, just that key's chain, so that linking its items again, each at the
  front, turns the stack round.
* **QueueProofs** - of DTQueue `TypeOK`, `WellLinked`, `ReadersTruthful`, for
  any sets of queues and entries. The invariant relates each queue to its
  `order`; `StepInv` reduces each macro to the one queue it changes, because no
  two queues hold the same entry, and the rest are facts about sequences with an
  entry taken from either end, cut out, or put in.
  Of STQueue `SinglyLinked`, for any number of queues and entries. Besides
  the links of each queue, the invariant says that no entry stands in two places,
  queues gone astray included, and that only an empty queue is marked as drained.
  The tail behind which `STQUEUE_ENQUEUE` links the new entry is then the last of
  that very queue, or the one that a drained queue has let go; in the second case
  the queues it may harm are the ones marked `astray`.
  Of Ring `WalksRound`, for any number of elements: what a walk has met is the run of
  the elements from the cursor on, in one direction, and such a run comes back to
  where it started when it has met as many as there are.
  Of List `ListSound`, for any lists, any number of cells (`CellsAssumption`: a
  natural number) and of refusals, anywhere. `LIInv` gives each list a chain, which leads
  from the head along `next` and back along `prev`, holds the index in its
  order, is the index where nothing was refused, and shares no cell with
  another or with what was lost. Cells that were lost are linked among themselves
  only: nothing the lists hold is reached from them. Growing appends fresh cells to a
  chain, some of them refused; shrinking cuts the cells behind the new
  length; moving hands a whole chain over. That such a chain is what `Run`, which walks
  along `next`, finds is a lemma by induction on the length: no walk is longer than the
  number of cells, because no cell is met twice.
* **LineReaderProofs** - `LinesWhole`, `NoneMissed`, `MemoryBounded`, for an input of any length.
  The argument goes by the numbers of the bytes, which growing and recycling leave
  alone: the buffer ends with the last byte put, `First` is the number of the byte
  at `line.start`, and a step either keeps it and `Taken` (a read, a recycling) or
  moves `Taken` over a byte that is looked at. That `line.start` goes back by
  as much as `pos` is the heart of the recycling step. For the bound on the memory
  the invariant says what a recycling leaves: less than three growsz and a page in
  front of the line. Behind it lie the bytes of one line, which `Longest` counts,
  and those just read, and growing adds less than two growsz to what is needed.
* **BTrieProofs** - `WellLinked` and `TidyUp`, for keys of any width
  (`BTrieAssumption`: each has a highest bit, within `TREE_DEPTH`). The argument is
  that the links say no more than which places have a node: `Shape` asks that the
  places come up to a root (`Closed`), that a child is there just when its place is,
  and that parent, index and selector are those of the place. An operation is then
  a set of places that come or go: the step of `btrie_add_node` adds one (`Grown`), the
  removals, the clean-up and `btrie_fini` take away a set that has with each place those
  below it (`Whole`, `Cropped`), and what such a change does to the links, to the volume
  and to the orphans is proved once for all of them. What `btrie_node_fini` frees,
  a recursion over the links, is by `BelowIs` what is below in the places. The climb
  of `cleanup_orphans` keeps that nothing but the node it is at may be a new
  orphan, and ends because each turn goes up by one.
* **RbtProofs** - `SearchTree`, `ListInOrder` and the refinement `ImplementsSortedSet`,
  for any finite set of nodes and any keys, equal ones included (`RbtAssumption`: the
  nodes are finitely many and not NULL, the keys are natural numbers). The
  invariant is that tree and list hold the same nodes: there is a set `S`, counted by
  `nelem`, of which the tree is a search tree (`Shape`), the list a chain (`Chain`), and
  outside of which every node is clean (`Loose`, what a node needs to be inserted
  again). `Shape(t, S, D)` names the nodes `D[m]` at and below each `m`; that of
  any two nodes the sets lie one in the other or apart is a consequence
  (`ShapeNested`). Colours do not occur in it, and must not: the code keeps no promise
  about them (the finding of `rbt_colours`). So each step of the code is shown
  to keep the shape whatever the colours are: `RotateKeeps` a rotation,
  `HangKeeps` a new leaf, `SpliceKeeps` a node with one child at most that goes,
  `SupplantKeeps` the next node by key that takes the place of another, and the
  adjustments are sequences of rotations and paintings. That they end is part of the
  proof: `_rbt_adjust_on_insert` goes on at a node with fewer nodes outside its subtree,
  `_rbt_adjust_on_remove` likewise. `Chain` says that `next` and `prev` of a node
  are the nearest keys of `S` on either side, which is what an insertion beside its
  parent and a removal keep. The two structures, each with links of its own, so
  meet only in `S`: both walks are the one sequence of `S` in
  the order of its keys (`SortedUnique`), from which the properties are read,
  and an operation that adds or takes one node inserts it into, or cuts it out of, that
  sequence. `rbt_fini` is a removal for each node of the walk.
* **JsonProofs** - `CallsMatchCallbacks` and `ConsistentIsWhole`, for any texts of
  the symbols in which a NUL comes only at the end, nested to any depth. The first
  invariant says that the recursion, the counter and the two stacks agree where
  text is left, and that nothing comes back to the first state, so that no second
  container is begun; where the text has ended the calls return without the
  counter, which is why the property speaks of text that is left. The second adds what the
  client was told: an outermost container has ended just when the counter is
  negative again, and then nothing more is told.

The recursive functions of Hash (the walk along a chain, the traversal, the items
linked again one by one), of BTrie (the ways down along a key, the climb, what is
below a node) and of Rbt are unfolded by lemmas that first show that such a function
exists: `Induction`, which is about sets of numbers and needs no operator as a
parameter, gives it for every length. In HeapProofs the functions of siftdown and
of heap_get_at exist because there is a least index from which they do. For the two adjustments of Rbt, which call
themselves on another tree as their last act, `TailCalls` gives it once for every such
function, whether or not its calls end; the walk in order exists because the sequences of the
two subtrees put together are that of the tree (`SequencesFit`).

Only model-checked: the path-compressed trie, the pull parser, the packing
functions, what the searches of BTrie find, and liveness, which the prover cannot treat. The
path-compressed trie and the pull parser follow branches and texts of any length
with recursive functions of tries and positions, each of which would need its own
unfolding and an invariant that names the tries as the one of Rbt names the shapes.

## 5. What is not modelled

Within the modelled parts: failure of malloc and realloc (the library asserts or
aborts), integer overflow of sizes, the contents of keys, values and bytes,
diagnostics. A client of
DTQueue keeps the rules the header and the tests imply: an entry is in one queue
through one link (the test `testdtqueue.c` itself shares a link between two
queues, which drain in the same order), it is initialised before it goes into an
empty queue, and a queue emptied by a fast macro is only finalised. A client of
`ByteStream` advances within `SAVAIL`. A client of `VByteStream` makes no string
longer than growsz, and after a rewind reads into strings of growsz bytes only:
the offsets count in growsz and pass the end of a shorter one. A client of the pull parser completes a
parse before it begins another. A text of the push parser has a NUL at its end
or none (`JsonAssumption`). A client of `pbtrie.c` removes keys and no
inner nodes. An array owns its block: `array_init_ref` and `array_ref_from`
make views of another's.

The other parts, with the reason: the operations of `bytes.c` are assignments to
one object, of which the escapes are in JsonPack and JParse; the counters of
`memdebug.c` belong to a debugging build; the macros of `pthread.h` are used by no code of the repository; `profile.c` reads a clock, `traversedir.c` the
file system; encodings, hash functions, numbers and dumps are pure functions or
output.

## 6. Plan

1. The set operations of `hash.c` on two dictionaries; `array_copy`.
