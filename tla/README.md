# zimg in TLA+

zimg is an image server: it receives images over HTTP, names each by the md5 of
its bytes, stores it on disk or in a database, and serves it back as it is or
scaled. This directory holds models of zimg's own code, where threads, system
calls and remote calls interleave and where it computes, the TLC runs that check
them on small instances, and proofs, checked by TLAPS, of what holds for every
instance.

Paths below are relative to the repository; `zimg.c:155` is line 155 of
`src/zimg.c`.

## The system

One process (`main.c`) runs an event loop of libevhtp with N worker threads.
Each worker serves one request at a time, from its HTTP callback to the answer,
and has connections of its own (`init_thread`). Workers share the file system,
the database, memcached, and inside the process only the table of log files.

| Part | State | Operations | Talks to |
| --- | --- | --- | --- |
| Disk store: `zimg.c`, `zutil.c` | the tree `img_path/<hash>/<hash>/<md5>/`, with the original in `0*0` and conversions beside it; advisory locks | `save_img`, `new_img`, `get_img`, `admin_img`, `info_img`; `mk_dirs`, `delete_file` | file system, cache, ImageMagick |
| Database store: `zdb.c` | the keys of beansdb or ssdb; one connection a thread | `save_img` (its branch), `get_img_mode_db`, `admin_img_mode_db`, `info_img_mode_db` | database, cache, ImageMagick |
| Cache client: `zcache.c` | blobs in memcached, under the md5 or a key made from the md5 and the parameters | `find_cache_bin`, `set_cache_bin`, `del_cache` | memcached |
| Log: `zlog.c`, `zspinlock.c` | 100 slots, each a `FILE *` and a spin lock | `log_open`, `log_printf0`, `log_close`, called one after another by every `LOG_PRINT` | file system |
| HTTP front: `zhttpd.c` | the request under way, the address of its connection, the list of headers; what the multipart parser and its callbacks remember | `conf_get_headers`, `post_request_cb`, `get_request_cb`, `admin_request_cb`, `info_request_cb`, `multipart_parse`, `on_header_value`, `on_chunk_data` | the stores, through the function pointers `settings.get_img`, `admin_img`, `info_img` |
| Second upload service: `xhttpd.c`, `xparser.c`, `xlist.c`, `xutil.c` | the parser's position and state; a list of results and its memory per request | `post_upload_request_cb`, `x_multipart_parse`, `x_multipart_parser_execute`, `base64_request_cb`, `result2json` | `save_img` |
| Access rules: `zaccess.c` | a list of rules for each of uploads, downloads and commands | `conf_get_rules`, `zimg_access_inet`, `free_access_conf` | the callbacks |
| Scaling: `zscale.c`, `zlscale.c` | none of its own; results are kept under keys made from the parameters | `convert`, `lua_convert` with `bin/script/process.lua`, `gen_key` | ImageMagick, Lua |
| MD5: `zmd5.c` | the count and buffer of one message | `md5_init`, `md5_append`, `md5_finish` | `save_img`, `zimg_etag_set` |
| Start and stop: `main.c` | `settings` | `load_conf`, `init_thread`, `sighandler` | all of them |

What makes each part correct, and what is hard about it:

* **Disk store.** Nothing in the process keeps two requests for one image
  apart; there are only `access` before `mkdir`, `is_file` before `open` and an
  advisory `flock` after it. An acknowledged upload must be on disk and stay
  there until it is deleted; a conversion must never take the place of an
  original; no path may keep the file of an image open or its lock; the answers must be
  true of the store at some instant between request and answer; every request
  must be answered. Writes may stop short and the process may die anywhere.
* **Database store.** The same promises over remote calls that may be refused,
  or done without an answer, and over connections that break for good.
* **Cache.** It is never invalidated by a delete, so the order in which a
  request asks the store and the cache matters.
* **Log.** The three calls of one `LOG_PRINT` each take and give back the lock
  of a slot; in between the slot is protected by its content only.
* **HTTP front and uploads.** A parser reads a form byte by byte, in one pass,
  while its callbacks save parts and remember things from a part's header to
  its data. Each part must be found where it is, refused or saved by itself and
  answered in its turn, wherever the body breaks off. Access must be granted as
  the rules say that the administrator wrote, though lists are built from text
  by pointers and in the reverse order, and though the address may be the
  proxy's word; main frees what workers may still read.
* **Second upload service.** The same parser and callbacks over a linked list of
  results, whose freeing depends on the order of pointer reads. Text must decode
  to the image that was meant however it was escaped, and memory must be given
  back once, on every path that the code has a way back for.
* **Access rules.** Masks, boundaries of 0 and 32 bits, the last section of a
  text that has lost its final 0.
* **Scaling.** Sizes in doubles, rounded; sizes of zero and beyond the image;
  keys that must tell apart all that makes results differ, for as long as the
  results are kept.
* **MD5.** Padding and counting at the borders of blocks and words.

## Modules

| Module | What it is |
| --- | --- |
| `FileSystem` | the part of POSIX that zimg uses: directories, names, inodes, descriptors, flock |
| `DiskStore` | the worker threads of `zimg.c` in disk mode, over `FileSystem` and the cache |
| `DbStore` | the worker threads of `zdb.c`, over the database and the cache |
| `ImageStore` | what an image store promises, as an abstract specification |
| `DiskStoreRefines`, `DbStoreRefines` | the mappings under which the two stores implement `ImageStore` |
| `ZLog` | the threads of the process inside `LOG_PRINT` |
| `Multipart` | a worker thread that takes uploads: the multipart parser, its callbacks, the two services |
| `MultipartForms` | the forms that clients send, whole or cut short, and what they must be told |
| `Access` | rule options as sections: how they are read, and what they promise |
| `Front` | the process from the reading of rules and headers to its end, and the callbacks of get, info, admin and upload on connections |
| `Scale` | parameters of a get, keys, `convert` and the script, on sizes of images, over results that are kept |
| `Md5` | how a message is counted, gathered into blocks and padded |
| `Base64` | a worker that takes images as base64 text, and the list, answer and memory of the second upload service |
| `Base64Texts` | the texts that clients send for an image: its encoding by RFC 4648, escaped or cut short |
| `MCDiskStore`, `MCDbStore`, `MCZLog`, `MCMultipart`, `MCFront`, `MCScale`, `MCBase64` | constants for TLC |
| `DiskStoreProofs`, `DiskStoreRefinesProofs`, `DbStoreProofs`, `ZLogProofs`, `MultipartProofs`, `FrontProofs`, `ScaleProofs`, `Base64Proofs` | theorems; `DiskStoreProofs` begins with those of `FileSystem`, `Base64Proofs` has those of `Md5` |

`DiskStore` EXTENDS `FileSystem`. The two `...Refines` modules instantiate
`ImageStore`. `ZLog` stands alone: a line that is printed changes nothing else.
So does `Multipart`: to it `save_img` is a call that succeeds or fails, which is
what `DiskStore` and `DbStore` show of it. `Front` EXTENDS `Access`, `Base64`
EXTENDS `Md5`; `Front` takes any answer of a store, and `Scale` sees of the
stores that they keep a result under its key until they forget it.
Operators named as mutants in the modules are forms of the definition next to
them with a plausible mistake in it; no specification uses them. They show that
the properties notice the mistake.

### DiskStore and FileSystem

A step of a thread is one system call or one cache call and the local
computation that follows it, since these are the points where another thread's
effects come in. `pc[t]` names the call that comes next. A request is a key
(the md5), an operation and a name within the image's directory: `"orig"` for
`0*0`, a variant for the file that a set of parameters (`gen_key`) or a script
(`t=`) leads to.

| Code | Actions |
| --- | --- |
| `save_img` | `UploadIsDir`, `Access`, `MkdirStep` (the loop of `mk_dirs`), `UploadIsFile`, `UploadCache` |
| `new_img`, for uploads and saved conversions | `NewImgOpen`, `NewImgFlock`, `NewImgWrite`, `NewImgWritten`, `NewImgUnlock`, `NewImgClose` |
| `get_img` | `GetIsDir`, `GetFindCache`, `GetOpen`, `GetFstat`, `GetRead`; `GetFindOriginal`, `GetDelCache`, `GetReadOriginal`, `GetSetOriginal`, `GetConvert`; `GetSetCache` |
| `admin_img`, `delete_file` | `AdminIsDir`, `DeleteOpendir`, `DeleteNext`, `DeleteRemove`, `DeleteRmdir` |
| `info_img` | `InfoIsDir`, `InfoRead` |
| end of the process (`sighandler`, or worse) and its restart | `Crash` |

What is abstracted. Bytes are one of six contents (nothing, a part, the upload,
the upload encoded again by ImageMagick, a conversion, an image made from a
part). A `write` has a beginning and an end, so that others read a part of it;
on one inode it excludes truncation, as the inode lock of the kernel does.
`readdir` returns the names present when the directory was opened, in any
order. Any cache lookup may miss, which stands for eviction, for expiry and for
sets that got lost; a set takes effect at once or leaves an older blob. The
`mkdir` of `img_path` itself is left out (`main.c` has made it). A failing
`remove` is as little looked at as in the code. `delete_file` never closes the
directory that it opens: `streams` has the images whose directory was left open,
and only the end of the process empties it.

`ScriptOn` is `settings.script_on`. The type of a request (`t=`) is read in any
case, and names the file only with the script on; `save_new = 2` asks for the
type alone (`HasType`, `Saved`, in both stores). So with the script off a get of
the original may have a reason to save what it made, as any get has with
`save_new = 1`. `KeepsOriginals` are the settings in which it has none:
`save_new = 0`, or 2 with the script on. What is promised of originals is
promised under them; otherwise a get that finds `0*0` missing, while an upload
creates it, saves a conversion there. A crash of the
process keeps what was written: the machine does not crash. `Lvl1` and `Lvl2`
are `str_hash`, as any function.

### DbStore

The same reading of `zdb.c`: a step is one database or cache call. A call is
answered, refused (by the server, or because the connection is NULL), or, in
mode 3, gets no reply and breaks the connection: hiredis fails every later
command on it and zimg, whose code for connecting again is commented out
(`zdb.c:180`), never repairs it. A call without an answer may have been carried
out. `exist_ssdb` and `del_ssdb` hand the missing reply to `freeReplyObject`,
which reads it: the process dies (`Dies`). `Restart` starts it again, with
connections that may or may not come up.

### ZLog

`OpenLock`, `OpenLook`, `OpenFopen`, `OpenNext` and `OpenReturn` are the loop of
`log_open`; `PrintLock`, `PrintLook`, `PrintLine`, `PrintUnlock` and
`PrintStdout` are `log_printf0`; `CloseLock`, `CloseFclose`, `CloseNull` and
`CloseUnlock` are `log_close`. `SpinLock` is the step of `spin_lock` in which
`__sync_fetch_and_or` returned 0. `failed` is a history variable. Slots start at
`LOG_USER` as in the code, so slot 0 is not there. The text of a line is left out.

### Multipart

One worker suffices, since parser, `mp_arg` and answer belong to one request. A
step is one turn of the loop of `x_multipart_parser_execute` (`StartBoundary` to
`End`, one action for each state of the parser; `..._start` states that fall
through into the next are one action with it) with the callbacks made in it
(`OnHeaderValue`, `OnLastHeaderValue`, `OnChunkData`). `/upload` uses the library
of `deps/multipart-parser-c`, of which `xparser.c` is a copy with other names, so
one model stands for both; the services differ in the answer. `Receive` is all
of `post_request_cb` and `post_upload_request_cb` before the form is parsed; a
Content-Type that has the word `boundary` and no `=` ends the process there
(`"fatal"`: `strchr` returns NULL, `xhttpd.c:404`, `zhttpd.c:598`). The boundary
is what follows the first `=`: where another parameter comes first, the body has
another boundary than the parser, and counts as damaged. `MultipartParsed` is the end of `multipart_parse` and `x_multipart_parse`, `Reply`
the rest. Positions count from 1.

Bytes are what the parser tells apart: CR, LF, `-`, `:`, blank, letters, others.
What a header's value says of a file is one byte (`Values`); the bytes of a file
name matter only to `get_type` and `is_img`. An answer is a sequence of what it
tells of each part, with the place of the data that was saved. `OnLastHeaderValue`
is the case in which the parser calls `on_header_value` twice for one value, the
second time with the quote overwritten that the first call found.

`MultipartForms` says what clients send: the boundary, parts of any number of
headers and any data, a boundary behind each (`RenderForm`). `Part` has what is
required of one: no name of a header holds a colon or a line end and no value a
CR, at most one header of a part names a file, and the data has no line end with
the boundary behind it. `Says` is what a header tells of a file, the first byte
of its value that does, as `strnstr` and `get_type` find it. A body of a request
is a form, the beginning of one, or any bytes (`"damaged"`); of the last kind
nothing is promised but `TypeOK`, `ChunkDelimited` and `Answered`.
`AnswerParts` matches the results with the parts in their order.

### Access and Front

`Access` has the letters of a section abstracted to what the code reads out of
them: the word, a blank, `all`, what `zimg_inet_addr` and `zimg_atoi` return.
`Rule`, `MakesRule` and `AddRule` are `stor` and the loop of `conf_get_rules`,
`zimg_access_inet` has its own name. `Hosts[n]` is 2 to the number of bits that
a mask of n bits leaves open, so that masking is arithmetic. Both `strchr` calls
of `conf_get_rules` and `conf_get_headers` read a copy without its final 0:
`Misread` and `LoadHeader` take every way the bytes behind it can change the
last section. A header section without a colon makes the process die before it
serves (`DieOfHeader`), or, as the last one, be served with a header of stale
bytes. `Verdict` is what an option promises, said about the text.

`Front` has the whole life of a process. `LoadRule`, `LoadHeader` and
`NextOption` are `load_conf`; `Receive` is the beginning of the callbacks up to
the method, `Judge` the call of `zimg_access_inet`, `HandleGet`, `HandleAdmin`,
`HandleInfo` and `HandleUpload` the rest, each of them a step, since other
workers and main go on between them. Texts of pages and the parameters are
left out, and so is the upload whose Content-Type ends the process, which
`Multipart` has. `StopLoop`, `FreeOption` and `Exit` are main after its loop has ended:
libevhtp's workers still run, and may read freed lists, with any outcome.
The callbacks of `/dump` and `/echo` touch no state. `info_request_cb` asks no
rule, nor does `base64_request_cb`, and `X-Forwarded-For` is believed for the
rest of a connection: the model has that as the code does.

### Scale

An image is its size before it is turned, the angle by which it is turned, what
was cut off its sides, its quality and its format. `Read` is what
`get_request_cb` takes of a query: any ints, what `atoi` makes of the text.
`Key` is the key of `get_img`. Keys are strings of one namespace, `md5:type` and
`md5:w:h:p:g:x:y:r:q:fmt`, so that a type with colons may spell the key of other
parameters: `Spells` has these types with what they spell, and `TypeKey` gives
them that key. File names are apart (`t_type`), so that without the cache such
a request is not answered with the other's result (`OwnFile`). No type of the
list has a colon (`SpellsAssumption`). A key is cut at `CACHE_KEY_SIZE` (128);
a request that can be converted leaves eight characters of it for the format,
since its p is a digit or its sizes are 0, and these tell ImageMagick's formats
apart. Of the rest, `proportion`, `crop` and `convert` are those of `zscale.c`;
`square`, `max_width`, `max_size`, `LuaProportion`, `LuaCrop` and `f`'s
`LuaScaled` and `LuaSteps` are the script, `lua_convert` runs it. Operators that
stand for ImageMagick's calls return the images that a call may leave; that any
call fails is possible besides and changes nothing that is kept. Doubles are
rationals whose rounding may go either way where the fraction is exact: both
neighbours of a half, and for `ceil` and the cast a whole number or the one that
a last bit makes of it. A get is one step, which is enough here: interleavings
of gets are in the stores.

What the code does and the model has as it is: with p = 1 and two sizes a
resizing that fails is hidden by the cut after it; p = 2 with a size above the
image's wraps; the script looks only at the last return code of rotate, gray,
quality and format, and its `max_width` with a ratio returns nothing for narrow
images, which fails; `lua_convert` drops an orientation that `convert` would
apply; p = w = h = 0 returns the original whatever g, r, q and f ask for;
`disable_zoom_up` is not part of the key; a negative size is compared with an
unsigned one, and so becomes the image's own size with `disable_zoom_up`
(`Clamped`) and a huge one without it; a format that begins with `none` changes
nothing (`NoneFormats`). Sizes that leave the range of int on the way to
ImageMagick become any size (`ResizedToInts`), and the result is marked as
`missed`. `MaxInt` is the largest int; the products that are taken in doubles or
unsigned are taken exactly. Left out is `webp500` of the script, which names an
undefined `CF_WEBP`.

### Md5 and Base64

`Md5` keeps what `md5_append` and `md5_finish` do with count and buffer; instead
of a digest it has the blocks that `md5_process` was called with. The bits of a
byte, the size of a word and of a block are parameters, so that messages of a
few bytes cross every border. `Place` has the values that a one in each byte of
the count stands for (`Base` is 256), which the code has as shifts. `Padded` is
the padding of RFC 1321.

`Base64` is one request after another: `ReceiveText`, `Decode`, `Save` are
`base64_request_cb`, `Refuse` its `err`. `ReceiveOther` is all else that answers
with a list: what is refused (`ReceiveRefused`), forms and images that are taken
(`ReceiveUpload`), forms that `x_multipart_parse` gives up, leaving behind the
list that it has made, and the parser if there is one (`ReceiveUnparsed`,
`xhttpd.c:393` to 451), and the form that ends the process (`ReceiveFatal`).
`losses` remembers which of the ways to lose memory a request has met; `MakeList` is `addHead` for each result, `Operate`, `PrintJson`,
`FreeNode` and `FreeList` are `result2json`, `Reply` the end of the callback. `heap`
is the memory that is allocated, `pointers` the variables that are not NULL,
`twice` what was freed without being allocated. `freeLinkedList` reads `next`
from a node it has freed: the pointer is intact, or gone and the rest of the
list is lost, or the process ends. Of an escape that is cut short
`url_decode` drops the `%` only, and a digit that is left may spoil the last
group: such texts are not among those of `base64_all`. An empty text stores an
empty image.

### ImageStore

A store holds a set of keys. A request about a key is answered `ok`,
`notfound`, `notmodified` or `fail`, and each answer but `fail` must be backed
by an instant between request and answer at which it was true; only uploads add
a key, only a delete takes one away, and a restart changes nothing.

`DiskStore` implements it in two readings of "stored". *By directory*: the
image's directory exists, the test with which every handler begins. This holds
in every case and is proved. *By content*: `0*0` holds all bytes of the upload.
This is what a client means, and it holds only while requests follow one
another and no call fails; this is proved for one worker, the run
`disk_sequential` checks it, and `disk_upload_race` shows that it cannot hold
with two workers. `DbStore`
implements it with "the database has the md5" while no call fails.

## Runs

| Run | Question | Instance | Distinct states |
| --- | --- | --- | --- |
| `disk_all` | do originals stay, is no file or lock left behind, is `ImageStore` implemented, is everything answered, in any interleaving? | two workers, one uploads and deletes, the other does everything; one image, one variant; cache off | 133 thousand |
| `disk_faults` | are acknowledged uploads on disk, and do they survive failing calls and restarts? | one uploader, one reader that converts, caches and saves; two variants; two faults | 1.5 million |
| `disk_sequential` | is the store exact, and the cache consistent with it, for one request at a time? | one worker, two images with common hash directories, one of them no picture; cache and etag on | 16 thousand |
| `db_all` | does the database store implement `ImageStore`? | two workers, all requests, one image, two variants, beansdb, cache on | 44 thousand |
| `db_uploads` | is an acknowledged upload in the database, and is the original served byte for byte, whatever fails? | two workers that upload, get and describe, two images, ssdb, etag on, one failure or death | 671 thousand |
| `form_all` | is every part of a form found, refused or saved by itself and answered, and is every request answered, whatever the body is? | one worker; a boundary of three bytes; forms of one image with any five bytes of data out of CR, LF, `-`, `b`; all pairs of parts over six kinds of header and three data; three parts without headers, with empty ones, with blanks and colons in them; pairs cut short and damaged at every byte; both services | 389 thousand |
| `log_all` | do the log's slots keep threads apart, are locks given back, are there always enough slots? | three threads, three slots, any `fopen` may fail | 67 thousand |
| `front_all` | do answers follow the rules and carry the headers, as the configuration has them written? | addresses of three bits; rule texts of up to three sections over six ranges; five texts of headers; one connection that may be replaced; requests of all services, methods and targets, three addresses in X-Forwarded-For | 177 thousand |
| `scale_all` | do keys keep results apart, are sizes and cuts what was asked for, is anything refused without a cause? | five images (wide, high, lying on its side, square, flat); queries with every p and cut, sizes from -200 to 200, qualities and angles in and out of range, each type, one type that is not in the list and one that spells the parameters of a query; four settings and changes between them; eight types; ints from -201 to 200 | 492 thousand |
| `base64_all` | is the image decoded that was sent, named by all its bytes, and is the memory given back? | images of up to 20 bytes, blocks of 8, each text plain, escaped where URLs need it, escaped throughout, with a `%` in front of characters or at the end, and cut short by up to three characters; up to three results | 12 thousand |

Two workers are enough for the races of the stores, which are all between two
requests for one image (or for two that share a hash directory), with a worker
that serves request after request standing for any number of past ones; a
second image is there where directories are shared or keys could be mixed up.
Two faults let one fault hit the handling of another. Inodes: one for each name
and each open file is what a state can use at most; released numbers are used
again. For `log_all` three threads are the fewest with a thread that passes
over a slot while two others hand another slot on. Five bytes are the length of
a line end and the boundary of `form_all`, so that all beginnings of a delimiter,
and beginnings inside beginnings, occur in the data; what the callbacks
remember reaches from one part to the next, so two parts are enough for most, and
three for the order of results; the theorems hold for any number. In
`front_all` three bits have masks of no, some and all bits, with an address inside and
outside of each; requests of different connections share only what is read once,
so one connection is enough, and the theorems hold for any number. In `scale_all`
the images are small enough that halves, zeros and all orders of sizes and
requests occur, and an int of 200 is one that percentages and proportions of
them leave. In `base64_all` 20 bytes are two blocks and a half, and with two
bits a byte and two bytes a word the count of bits overflows a word.

Two runs show the code doing something else than its comments say:

* `disk_upload_race`: `new_img` opens with `O_TRUNC` before it asks for the lock.
  Of two uploads of one image the loser of the lock empties the winner's file,
  and the winner returns success.
* `db_dies`: a lost connection ends the process, through the freed reply that
  never came.

More of the kind were met, and are told by the models without a run of
their own. With `save_new = 1` a `get` that finds `0*0` missing, while an upload
creates it, truncates the finished file and saves its conversion there
(`zimg.c:359`). With `save_new = 2` a get of the original that has a type does the
same while the script is off, although `save_new = 2` is to "only save types in
lua script" (`src/bin/conf/zimg.lua:89`). The result 0 of `MagickReadImageBlob` is returned as it is, is not
-1, and is answered 200 with an empty body (`zdb.c:109`). After a write that
stopped short the next upload of the image is
acknowledged without being written (`UploadStored` is therefore stated while no
call has failed); after a scaled `get` the cache serves the encoded-again image
as the original (`CacheSound` allows it); and a `get` without parameters saves
its conversion even with `save_new = 0`. With a broken connection `zdb.c`
answers "not found" for images that are stored, and a delete whose database call failed
returns the 1 of `exist_db` and is answered as a success (`AdminDel`).
A Content-Type without `=` ends the process, and a form that is given up loses a
list (`xhttpd.c:393`). A type that is spelled like the parameters of another get
is answered from the cache with what that get left there. A result that was kept before `disable_zoom_up` was set is served after it
(`KeptAsMade` allows it, `NotEnlarged` speaks of what is made).

### Fairness

`disk_all`, `log_all` and `form_all` check liveness under `FairSpec`: each worker that can
take its next step eventually takes one (weak fairness; the kernel schedules
every runnable thread), and no request has to arrive. One call of `DiskStore`
may wait, the truncation in `open` while another thread writes to the inode; it
is given strong fairness, since the kernel's inode lock hands over to waiters.
`flock` has `LOCK_NB` and never waits. Spin locks get weak fairness only: a
thread that spins is promised nothing while others come and go, so that
`LocksReleased` speaks of the lock and not of the thread that wants it. In
`form_all` the fairness is that the worker runs; that its loop ends is not assumed.
`Front`, `Scale` and `Base64` are checked for safety only: their requests are a
few steps without loops that could go on. `front_all`, `base64_all` and `form_all`
allow deadlock because a process that has ended does nothing more; `Answered` of
`form_all` is about the requests that do not end it.

## Proofs

The theorems hold for any number of threads, images, variants, slots and
faults and for every setting, but where a bullet names a hypothesis, from the
assumptions on constants in the modules, which TLC evaluates in every run: sets
are what they should be, without a script no type names a file, `NoThread` is no thread, `Threads` is finite in `ZLog`,
bounds (`MaxKept`, `MaxResults`) are numbers; the types of `Scale` are as the list
of `process.lua` has them (a size where one is used, ratios of at most 1,
qualities of 1 to 100), no type of the list spells parameters, parameters are any
ints and `MaxInt` is at least 100; in `Md5` a block is longer than its length field and a
word counts whole blocks, as 64 bytes, 8 bytes and 32 bits do.

* `DiskStoreProofs!TypeSafe`. `TypeOK` is not inductive: that a thread inside
  `new_img` holds a descriptor and bytes to write, and works for an upload or a
  get, must be part of the invariant (`RequestOf`, `DescriptorOf` in
  `TypeInv`). Each action is first reduced to the one system call it makes
  (`OneCall`), whose effect on the file system the lemmas at the beginning of the
  module state.
* `FlockExcludes`, `FilesGetClosed`. From `LockInv`: who is inside the locked part
  holds the lock of its inode, and every lock has a holder on its way through
  `new_img` with the inode open, so that no inode is released or given out
  again while it is locked. Directory streams are not among the files that get
  closed.
* `DiskStoreProofs!OriginalsStay`. From `LinkInv`: no two names lead to one inode, and an
  inode that a writer has open and that still has a name has the writer's own.
  A thread that writes a conversion therefore never writes to `0*0`, though
  names are unlinked and inodes used again while it has the file open.
* `DiskStoreProofs!WritersAlone`, `NewImgWrites`, `OriginalsSurvive`,
  `IncompleteIsTransient`, `UploadsStored`: that `new_img` returns success with
  every byte in its file only; that a complete original stays complete until a
  delete, over uploads of it again, failing calls and restarts; that an
  incomplete one has its uploader at work on it; that an acknowledged upload is
  on disk. `WriterInv` is the invariant: threads serve their role (`ServesRole`),
  no two have one inode open for writing (`OneHolder`), what a thread has written
  is in its inode (`Arrived`), and an upload opens only what is not there
  (`OpensNew`). `StoredInv` adds what uploads may find at each label. Hypotheses: the settings keep
  originals (`KeepsOriginals`: `SaveNew` is 0, or 2 with the script on), one worker receives the uploads (`Alone("upload")`), for
  `NewImgWrites` one the gets too, for `UploadsStored` nobody deletes. They are
  needed: `open` truncates before `flock` is asked, so two uploads break all of it
  (`disk_upload_race`), and so does a delete under an upload its last property.
* `DiskStoreRefinesProofs!ImplementsStore`. Each action maps to a step of
  `ImageStore` or to none. It needs `TypeInv` and the fact `Decided`, that a
  thread that answers has a result.
* `DiskStoreRefinesProofs!OneAtATime`, `CacheStaysSound`, `FailsForAReason`. With one
  worker, until a call fails: `SequentialInv` says which files are whole
  (`WholeFiles`), that an image's directory has its original unless the worker is
  in the middle of making or removing it (`HaveOriginals`), and what the worker
  knows at each label of creating directories, writing, reading and deleting
  (`Stage`). From it every call finds what it needs, and the cache gets whole
  blobs of the right kind only.
* `DiskStoreRefinesProofs!ImplementsContent`. On top of it, for behaviours in which
  no call ever fails: each step keeps what is stored and goes on (`GoesOn`), or
  answers with grounds (`Answers`, `Grounds`), where `Standing` is what the store
  was found to say of the image since the request began.
* `DbStoreProofs!TypeCorrect`, `OriginalsStay`. `WriterOf` says what a thread
  that is about to write holds: an upload the bytes it received, a get a
  conversion under a key that may be saved.
* `DbStoreProofs!UploadsStored`. Where nobody deletes and the settings keep
  originals, for any number of failed calls. `ServedBy` ties each label to the request it
  belongs to, `StepKeeps` shows that uploaded bytes stay under their md5, and an
  upload that exist_db answers "yes" to finds nothing else there.
* `DbStoreProofs!OriginalsVerbatim`. Where nobody deletes, for all settings,
  until a call fails. A get that passed exist_db has a connection and finds the
  image in the database (`GetterOf`), so a get of the original never comes to
  convert it, which is why no conversion gets under the md5, in the database or
  in the cache (`OwnBytes`).
* `DbStoreProofs!StoreImplemented`. With deletes, but `MaxFaults = 0` and
  settings that keep originals; both are needed. A delete that the database refuses
  is acknowledged, and with other settings a get that finds the original in the cache
  after it was deleted saves its conversion under the md5, which brings the image
  back. `StepControl` reduces each action to what the abstract store can tell.
* `ZLogProofs!TypeCorrect`, `LocksExclude`, `SlotsOwned`, `NoLineDropped`. Inductive together
  (`LogInv`): the lock of a slot protects its content while a thread is inside,
  the content protects the slot while no thread is. A step is reduced to what it
  does to the lock and to the file of its own slot (`StepEffect`).
* `ZLogProofs!SlotsSuffice`. To pass over slot i a thread must find its owner
  there, so at most n - i of n threads are beyond slot i (`RankInv`), and nobody
  gets past the last one if n is at most the number of slots.
* `MultipartProofs!TypeCorrect`, `ChunksDelimited`. For every boundary without a
  line end and all bodies. `ScanInv` says for each state of a part's data what
  the parser knows of the bytes behind it: how much of a delimiter it has seen,
  and that none begins before. When a byte does not fit, no delimiter begins in
  the bytes compared so far either, since a boundary holds no CR: this is why
  the parser may search without going back.
* `MultipartProofs!PartsAreAnswered`, `CutsSaveWholeParts`. For every boundary and
  form, whole or cut short; `FormsAssumption` says that bodies that are not
  damaged are such forms. `FormInv` is the invariant: for each state of
  the parser, `FormStates` says where in the form it stands (in which header of
  which part, how far into it, at the data, behind them), that the rest of the
  body is the rest of the form, and by `Known` what it has told so far and whether
  `check_name` holds back the data of this part. It goes with `ScanInv`, without
  which the end of the data is not known: `DelimiterIsEnd` concludes from it, and
  from data without a boundary, that the first delimiter the parser finds is the
  end of the data. `ValueSays` relates the byte that `on_header_value` looks for in
  the body to what the header `Says`, `PartTold` adds the part to what was told when
  its data ends. `Tells` is `AnswerParts` in a form that grows part by part, for
  either order of the list of results (`TellsAnswer` returns to `AnswerParts`). The
  parser may stop in any of its states when a form is cut; `StopsBehindPart` shows
  that what it has told by then has the first parts saved and no others.
* `FrontProofs!TypeCorrect`, `RulesFollowed`. For all masks, rule texts, addresses,
  requests and connections. The promise is about the text, the code asks a list.
  `Agree` relates the two: the list is empty iff the sections read so far say
  nothing, and grants an address iff they do. `AddRuleAgrees` shows that putting
  a rule at the head keeps it, since the head decides before the rest
  (`HeadDecides`) and the last section before the earlier ones (`LastDecides`);
  `RuleCovers` shows that a masked rule matches what its section covers.
  `FrontInv` carries the verdict from `Judge` to the answer (`PastCheck`), which
  needs that the lists do not change while the process serves.
* `FrontProofs!HeadersComplete`. An image's answer carries each header of the
  configuration at its place, and nothing else. The place of a header is the
  number of sections with a colon behind its own; one more section at the end of
  the text moves all places by one, as `AddHeader`'s new head does to the list
  (`AddHeaderCarries`). `HeaderInv` takes it from the list to the answer.
* `ScaleProofs!KeptForItsRequests`. A key tells all parameters that the
  conversion looks at (`KeyTells`, `ConvertLooksAtFields`), so that what is kept
  under it was made for an equal request, or for the parameters that a type
  which is not in the list spells, and the other way round; `disable_zoom_up`, which it does not
  tell, is bound by an existential in the property.
* `ScaleProofs!NeverEnlarged`. For each p, what `Clamped` leaves of the sizes
  bounds the result, because rounding a fraction of at most n gives at most n
  (`RoundBound`).
* `ScaleProofs!ConversionsAsAsked`, `ThumbsKeepToSize`, `RefusesForCause`. What the
  quotients and roundings of sizes and percentages can be, then each p of
  `proportion` and each type of the script by itself: the sides of the result,
  its proportion within a pixel, the place of a cut. For refusals the same
  lemmas show which sides cannot round to nothing.
* `ScaleProofs!TypesCorrect`. What ImageMagick is asked for has at least one pixel
  each way on every path (`TypeInv`), so that all that is kept is an image.
* `Base64Proofs!AnswersNameImages`. For every image, size of block and size of
  word. `Taken` is the invariant of `md5_append`: count, blocks and buffer are those
  of all the bytes so far, wherever the calls cut the text (`AppendTaken`).
  `PadLengthIs` shows that the padding, computed from a count that has lost its
  carry, fills a block nevertheless, because a word counts whole blocks;
  `CountBytesAre` that two words, each modulo its size, are the length; `DigestIs`
  puts them together. The order of results is that of the list, put in at its
  head (`ListInv`), over what the list can lose while it is freed.
* `Base64Proofs!MemoryReturned`, `TypeCorrect`. `MemoryInv` names at each label
  exactly which pieces are allocated, those that a form given up or an overwritten
  node has lost included; pieces differ (`PiecesDiffer`), so nothing is
  freed twice. `url_decode` and `b64_decode` make bytes of any text.
* `Base64Proofs!TextsDecoded`. For all images, of any length and bytes. The
  hypothesis, `IsText` of each message, says what clients send: each character of
  the encoding plain, escaped with either kind of digits or behind a stray `%`, the
  text whole, perhaps with a `%` at its end, or without its last one to three
  characters. `url_decode` takes it back because what it makes of a text does not
  depend on what is in front of it (`UrlFromShifts`), so that each way of writing a
  character is read by itself (`WriteDecodes`, then `WrittenDecodes` by induction
  over the text). `GroupDecodes` is the arithmetic of four characters and
  three bytes, `GroupsFlatten` puts the groups of an image together, and of a text
  cut short all groups but the last are whole (`TextDecodes`).
* Induction. `SetInduction` is induction for a set of numbers, from the fact that
  < is well founded; with it the recursive functions of `Md5`, `Base64` and the
  community modules (`Place`, `url_decode`'s, `FlattenSeq`'s) are proved to exist
  and about.

Only model-checked: liveness (`Answered`, `LocksReleased`), which like `ENABLED`
is out of the prover's reach. Every invariant and action property that a passing run
checks is proved. The other way round `FlockExclusive` and
`SpinExclusive` are proved (`FlockExcludes`, `LocksExclude`) and not run, and
`OriginalNeverConverted` of the database store, whose run has no failing call, is
proved for any failures. That the disk store implements
`ImageStore` while calls of a delete fail is proved (`ImplementsStore`) and not run.

## Not modelled

Vendored libraries (`deps`), `md5_process`, pixels, options of the configuration
that only choose a port or a path, the wording of answers. The stores identify
images with their md5. `retry_cache`, `exist_cache`, `log_flush`, `log_handler` and
`mk_dirf` are called by no request. What a misconfigured header does to memory
beyond ending the process is not modelled either.

## Plan

1. The composition of `Front` with a store, so that the answers of a request are
   those of the store's own steps.
2. `md5_process` against the rounds of RFC 1321, if its words can be kept small.
