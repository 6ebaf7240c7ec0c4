# A verification of NTloader

NTloader boots Windows from a file. It unpacks an initrd in memory, shows the
files to the Windows boot manager as a FAT32 disk that exists only in code,
patches the boot configuration (BCD) so that it names the partition that holds
the WIM or VHD file, and starts the boot manager. It exists as a BIOS program
(`main`) and as an EFI program (`efi_main`). This directory models the parts of it
whose correctness is hard to see and hard to test, checks them with TLC and proves
the central ones with TLAPS.

## 1. Inventory

| Component | State | Operations | Interacts with |
|---|---|---|---|
| Virtual disk, `libnt/vdisk.c` | `vdisk_files`, the count of files | `vdisk_add_file`, `vdisk_read` and its builders | filled by the extraction, read by the INT 13 handler and EFI block I/O |
| Block devices, `kern/int13.c`, `kern/efiblock.c` | BIOS drive count and vector; two EFI protocol handles | `initialise_int13`, `emulate_int13`, `efi_read_blocks`, `efi_install` | called by bootmgr or the firmware at any time after `main` has jumped |
| BIOS memory, `kern/main.c`, `kern/paging.c`, `kern/e820.c` | page directory, `initrd`, the memory descriptor, the continuation of the e820 walk | `relocate_memory_low`, `load_pe`, `relocate_memory_high`, the descriptor | the virtual files are pointers into the memory that moves |
| Extraction, `kern/payload.c`, `libnt/cpio.c` | `nt_cmdline->bootmgr`, the files | `cpio_extract`, `add_file` | feeds the virtual disk |
| Partition search, `disk/` | `disk_data`, `partid`, `partmap`, `diskid`; the lists of EFI devices | `make_devices`, `name_devices`, iteration over BIOS or EFI disks, MBR, EBR and GPT walks, `check_fsuuid` | its answer is written into the BCD |
| BCD, `libnt/bcd.c`, `libnt/reg.c` | the hive in memory | open and validate, find and delete keys, find values, patch in place | reads the command line and the search's answer |
| EFI boot, `kern/efimain.c`, `efiboot.c`, `efifile.c`, `efi.c`, `efiterm.c` | handles, the wrapped boot services, the console mode | locate the initrd, install, `efi_boot`, `OpenProtocol` wrapper | the virtual disk, the search |
| Command line, `kern/cmdline.c`, `kern/charset.c` | `args` | `process_cmdline` | everything above |
| Decompression, `libnt/huffman.c`, `lznt1.c`, `xca.c` | decoder state | decompress | used by `utils/bmtool.c` to take bootmgr.exe out of bootmgr |
| `kern/die.c`, `cookie.c`, `posix/` | | run-time support | |
| `utils/` | | `mkinitrd`, `regview`, `bmtool` use or feed the code above; `elf2efi`, `bin2c`, `fsuuid` stand alone | |

What is hard in this code:

* `vdisk_read` cuts a request at boundaries found by two different rules (slots of
  files, a table of regions) and mixes 32-bit, `unsigned long` and 64-bit
  arithmetic; `unsigned long` differs between the two programs. Tests read a
  sector or a file, never the requests around each boundary of a 2 TB disk.
* The contents of the disk are computed separately by seven builders that must agree
  with each other: a directory entry's cluster with the FAT's chain, the FAT's chain with
  the slot, the slot with the region table.
* The initrd moves twice while pointers into it exist, once over RAM that the
  firmware describes in any order and with holes, once through a page table that
  is being changed under the copy.
* Firmware answers (disk reads, memory maps, protocols) may fail at any call; some
  failures end the boot, others are passed over, and a few leave a variable as it was.
* Arguments of the command line set fields of one another, the defaults depend on the
  boot type, the BCD is patched by deleting and overwriting what it holds, and
  one wrong length or one key that is deleted twice ends the boot.
* The same bytes are walked by several loops that must agree: a list of subkeys by
  enumeration, search and deletion; a compressed image by a measuring and a writing pass.

`PROJECT.json` lists the hazards one by one, with the line where each of them bites and
the properties that would show it.

## 2. Modules

| Module | Models |
|---|---|
| `VDiskGeometry` | the numbers of `include/vdisk.h`, and what the layout needs of them (`GeometryOK`, `WidthsOK`) |
| `VDiskImage` | what the disk's layout promises for each sector: `Shows(files, lba, content)`, from the structures of `vdisk.h` and the directory builders |
| `VDiskSpec` | the abstract disk: a read is answered in one step with what `Shows` allows |
| `VDisk` | `vdisk_add_file` and `vdisk_read`, one step for each iteration of either of its loops |
| `VDiskInv` | the assumptions on the constants and the inductive invariant `ReadInv` |
| `ArithLemmas`, `VDiskProofs` | the proofs |
| `Int13` | the INT 13 drive among the drives of the BIOS, and bootmgr's search for it |
| `FatDriver` | composes `VDisk` and `Int13` with the EFI block devices and an external FAT32 driver |
| `FatDriverInv`, `FatDriverProofs` | what is assumed of names and paths, the inductive invariant `DriverInv` of the driver, and the proofs about it and the drive |
| `BootMemory` | the BIOS program's placement of the initrd, from `init_paging` to bootmgr's use of memory |
| `BootMemoryInv`, `BootMemoryProofs` | what is assumed of addresses and machines, the inductive invariant `BootInv`, and the proofs |
| `DiskSearch` | the search for the partition that holds the WIM or VHD file (`disk/`) |
| `DiskSearchInv` | what is assumed of the machines and of their partition tables, and the inductive invariants `SearchInv` and `FoundInv` of what is read and found |
| `DiskOrderInv`, `DiskSearchProofs` | what is assumed of the order in which tables list partitions, the inductive invariants `LinkInv`, `ListInv`, `FirstInv` and `LimitInv` of which partition is found and how far a chain is followed, and the proofs about the search |
| `CommandLine` | `process_cmdline`: what each argument sets, and the defaults |
| `Hive` | the operations on a registry hive |
| `BcdTemplate` | the BCD that the loader carries (`utils/bcd`) |
| `BcdPatch` | `bcd_patch_data`: the patches by boot type, and how each is applied |
| `Cpio`, `ExtractProofs` | the archive that `mkinitrd` writes, the walk of `cpio_extract`, and the proofs that the files are the packed ones |
| `Payload` | composes the last five with the answer of the search: from the command line to the files and the patched BCD |
| `PayloadProps` | what the documentation promises of that, and the elements in which the loader departs from it |
| `PayloadInv`, `PayloadProofs` | what is assumed of archives, of the line and of the BCD, the inductive invariants `HiveInv`, `LineInv`, `PatchInv`, `OpenInv` and `ExtractInv`, and the proofs |
| `RegView` | opening and listing a hive (`utils/regview.c`, the rest of `reg.c`) |
| `EfiDisks` | how the firmware's handles are sorted into disks (`efidisk.c`) |
| `EfiBoot` | the EFI program from its entry to the boot manager, with `EfiDisks` |
| `EfiDisksInv`, `EfiBootProofs` | what is assumed of handles, the inductive invariants `DiskInv` of the disks and `EfiInv` of the rest, and the proofs |
| `Huffman` | alphabets, the lookup table, the decoding of a symbol |
| `Decompress` | XCA, LZNT1 and the two passes of `bmtool` |
| `MC*` | the instances TLC checks |

### VDisk

`files` and `index` are `vdisk_files` and the static counter of `vdisk_add_file`;
`start`, `end`, `frag_start`, `frag_end`, `region` and `build` are the locals of
`vdisk_read`. `data` is the offset of the `data` pointer in the caller's buffer
`buf`, in sectors. A sector's content is a record that says what the structure
written there contains (a FAT sector is the function from its entries to the next cluster,
a directory sector the sequence of its entries, a file's sector the file and the bytes of it); a
builder that writes outside the buffer sets `stray`. The pointer to a file's data
is the token `opaque`, a different one for each file.

`AddFile`, `TooManyFiles`, `Reboot` are `vdisk_add_file` with its fatal path (`die`
waits for a key and reboots), `Serve` is the end of the extraction. `StartRead` is
the call of `vdisk_read`, `FileFragment` and `RegionFragment` the two ways a
fragment begins, `ScanRegion` one iteration over `vdisk_regions`, `BuildFragment`
the call of the builder and the advance to the next fragment, `Return` the return.

Widths are constants: `UIntMod` for `unsigned int` and `uint32_t`, `ULongMod` for
`unsigned long` and `size_t`, `U64Mod` for `uint64_t`. The instance with `ULongMod = UIntMod`
is the BIOS program, the one with a larger `ULongMod` the x86_64 EFI program.

`vdisk_patch_file` and `patch` callbacks have no caller in the repository and are
left out, as are the bytes that only identify the disk (serial numbers, OEM names,
time stamps).

### FatDriver and Int13

bootmgr and the firmware are not part of the repository; the driver is modelled as
any FAT32 driver works, from nothing but what it reads: partition table, boot record,
directory sectors with long file names, FAT entries. It goes through one of three
devices, `Int13Drive`, `EfiVDisk` and `EfiVPartition`, whose offsets and sizes are those of
`int13.c` and `efiblock.c`. All definitions of the driver are marked external.

On the BIOS it has to find the drive first. `counter` is `INT13_DRIVE_COUNT`, the byte of the
BIOS data area in which `initialise_int13` counts its drive; `EmulateInt13` is the handler, with the
answers of a BIOS (`BiosCall`) that takes its number of drives from that byte or
counts them anew. `Unplug` is a drive that goes while bootmgr is looking: the BIOS corrects
the byte, which the loader has changed. `DriveFound` holds because the handler raises the number
of drives after every call, not only once. (It raises it for a
question about floppy drives too; bootmgr does not ask that.)

### BootMemory

Physical memory is a function from addresses to contents, where byte `i` of the
initrd is the number `i`. A machine is a memory map (a sequence, as INT 15 e820
returns it, in any order), the address at which the boot loader left the initrd,
and its length. The actions follow `main`: `InitPaging`, `RelocateLow` (one map entry a
step), `ExtractInitrd`, `LoadPe`, `RelocateHigh`, `CopyFragment` (one 2 MB page a step,
read and written through the page directory), `UnmapWindow`, `Describe`. `BootFails` is each
of the fatal paths of the extraction and of `load_pe`. `BootmgrWrites` stands for bootmgr, which may use all RAM
below 4 GB that the descriptor does not list.

### DiskSearch

A machine is its firmware (BIOS or EFI), its disks, and the `uuid=` parameter. A disk is the
sequence of its sectors' contents, as far as the search looks at them, with what the
firmware says of its geometry and size. Reads are steps of their own: `ExtRead` is
`biosdisk_rw_int13_ext`, after whose failure the disk is read in CHS mode for good; `ChsTry` is one
of the three tries of `biosdisk_rw_std`; `EfiRead` is `efidisk_read`, which reads whole pages.
Each may fail although the sector exists; `faults` counts that. Between them, `NextDrive` and `Probed` are the loops of
`biosdisk_iterate` and `efidisk_iterate` with `biosdisk_fill_data`; `GotMbr`, `CheckEntry`, `GotVbr`
are `check_mbr`, whose recursion is `stack`; `GotGpt` to `GotGptVbr` are
`check_gpt_partmap`. `answer` is what the search leaves in `nt_cmdline`.

The properties compare `answer` with the list of the partitions (`parts`) from which
`MCDiskSearch` writes the sectors, as a partitioning tool would; the search never
looks at that list. For the assumptions of the proofs it also writes down, in `before`, how many of the partitions
come before each entry of each table.

### CommandLine, Hive, BcdPatch, Cpio, Payload

`Payload` follows `main` and `efi_main`: `ProcessArgument` is one turn of `process_cmdline`,
`Search` what `DiskSearch` models in detail, `ExtractMember` one turn of `cpio_extract` with
`add_file`, `OpenHeader`, `OpenBin` and `OpenDone` are `reg_open_hive`, `PatchElement` one call of a
`bcd_patch_*` or `bcd_delete_key` function, `PatchSuffix` is `bcd_replace_suffix`. Each `die` is a phase of its own.

A text is a record of what the code looks at: which text it is, its length, its extension and
the form of its separators. So `Cut` (`snprintf`), `ConvertPath` and `Ucs2` do what the
conversions do to these, and the lengths at which a buffer or a value is full are those of the source.
The division of the line into words is an input of the model.

A hive is its cells. A cell's kind says what the signature and the size checks make of it (`Hive`
lists them), names are whole, and a cell number stands for an offset. `Template` has the objects,
elements and value lengths of the file `utils/bcd`, in its order; an object that
nothing names stands for several such objects.

`PayloadProps` says what the result must be from `docs/cmdline.md` and the formats, for the whole line
at once ("the last argument that names a path decides the boot type") where the code
goes argument by argument. `BcdAsDocumented` compares the live elements of the patched hive with that. `Departs` names
the elements in which the loader is known to do something else, and for which lines; these the property leaves out:

* docs/cmdline.md:130 promises safe mode if `safemode` is set, and line 106 makes `altshell` a choice of the shell *in* safe
  mode. The loader boots into safe mode for any `altshell`, even for `altshell=no` (cmdline.c:222). So without
  `safemode` the elements SAFEMODE and ALTSHELL are there although they should not be.
* docs/cmdline.md:157 promises that the extension of `winload` is corrected. `bcd_replace_suffix` (bcd.c:33-47) compares
  it with small letters only, so `winload.EXE` stays as it is in the EFI program.
* `bcd_replace_suffix` does not ask what a text is for: load options, a system root or the path of a boot file that ends in
  the other firmware's `.exe` or `.efi` is changed as well.

Where the documentation is silent (which of `hires` and `gfxmode` counts, what an unknown word does, that `f8` and `edit`
imply text mode) `PayloadProps` has the loader's rule, for the whole line.

Noticed on the way, and true of the model as well: a path of 255 characters fills its
place in a device path (bcd.c:220); the zero character that `bcd_replace_suffix` looks for after it is there only in the value of a
RAM disk's path, whose cell is padded (`PathRoom`); without any command line the defaults of cmdline.c:329 are not set, because the
function has returned, so `BcdAsDocumented` excludes that case; a member of an archive that ends with it, without trailer, ends the
extraction without error; `mkinitrd` does not notice a file that becomes shorter while it is packed, and the
files after it are then found in the wrong place or not at all, which the loader reports.

### RegView

The hives the loader does not ship: damaged cells, lists that are too long, lists of lists, bins that do
not fit. `ListKey` and `ListValue` are one turn each of `print_keys` and `print_values`. The
length of a leaf in a list of lists is compared with the room of the list of lists
(reg.c:214), so a large key may list as empty; `ListingAgrees` claims completeness only where that does not happen.

### EfiDisks and EfiBoot

A device path is a sequence of nodes, a handle a path with its media. `ByMedia` and
`ByHeuristics` are one turn each of the two loops of `name_devices`, with the removal of the device from the
list and the search for its parent. `EfiBoot` runs them after `LocateHandle` and `MakeDevice`; when
`locate_handle` fails or finds nothing it returns a buffer that it has freed, whose words (`Stale`) the
firmware is assumed to refuse to open; what a firmware does that takes one for a handle is not modelled.

Every call of the firmware works or, as long as `maxFaults` allows it, fails; the
disjuncts with `Fails` or `Failed` say where the loader goes on. The two ways to load the initrd are
`Lf2Locate`, `Lf2Size`, `Lf2Read` and `SfsOpen`, `SfsRead`. What the loader does not look at is in the model, and
`BootState` says exactly how far it can go wrong:

* `efi_set_text_mode` gives up when `GetMode` or `SetMode` fails (efiterm.c:85-91), and neither `efi_main` nor `efi_boot`
  (efiboot.c:164) looks at that: after a failed call the screen may be in the other mode (`SetTextMode`).
* The three calls that find the size of the file are not checked (efifile.c:91-93). A size that the firmware does not
  tell is any of `Garbage`; a position that it does not set back leaves the file to be read from its end (`SfsSize`, `start`).
* The size is a `UINT64` and is stored in a `UINTN` (efifile.c:97): in the i386 program a file of 4 GB or more is loaded in part
  (`AskFor`, with `uintn` values), without a failed call.
* `BYTES_TO_PAGES` (ntloader.h:64) adds in a `UINTN`, so that a length just below its limit needs no pages at all (`Room`).

`OpenGop` is the boot manager opening a graphics output through the
wrapper of a build with `ENABLE_TEXT_DEBUG`: `RefusedOnce` says that it is refused once per output, however
the calls for several outputs interleave.

### Huffman and Decompress

The formats at a smaller width: bytes of two bits, codes of at most four. One step is one
symbol, tuple or block. The measuring pass (`buf == NULL`) and the writing pass of `bmtool` run one after
the other; `beyond` is what the memory after the image holds, which may differ between the passes.
`MCCodecs` contains the encoders, written from the formats and not from the decoders.
`StreamsDecoded` compares the output with the text; `PassesAgree` says for arbitrary bytes that the writing pass
fills exactly what the measuring pass measured, as long as neither read beyond the image.

The XCA loop ends when the last word has been fetched, although its symbols are still in the accumulator
(xca.c:112): a stream needs a byte after its last word, which the encoder writes. The tables that
`bmtool` recognises an image by are the input `CandidateLists`. Its subtraction
`len - BOOTMGR_MIN_LEN` for a file shorter than that, and the stated length of a compressed LZNT1 block, are not
compared with anything in the code; the first is not modelled, the second is.

## 3. Runs

| Run | Instance | What it shows |
|---|---|---|
| `vdisk_32` | 8-byte sectors, 4-sector clusters, three files, 64-sector slots, 32-bit `unsigned long` scaled to 512 | each read returns what the layout promises, writes only the caller's buffer, terminates, and implements `VDiskSpec`; `ReadInv` holds |
| `fat_driver` | three files with names of one and two long-name records and a cut one; BIOSes of both kinds, with two hard drives or none | bootmgr finds the drive; every file is found and delivered byte for byte in every directory and through every device; a lookup ends |
| `boot_memory` | pages scaled to 2 and 8 units, five shapes of memory map, seven lengths, two load addresses, and a machine without e820 | the files survive both moves, the loading of bootmgr.exe and bootmgr's own writes; only reported RAM is written; the first megabyte keeps its mapping; both walks end |
| `disk_search` | twelve sets of msdos, GPT and unpartitioned disks, both firmwares, nine UUIDs; built as by default (`DEBUG` is 1), and a few machines with `DEBUG=0` | the search ends; it finds the first partition with the UUID although up to two reads fail, and never a wrong one although up to four do; a successful read is the sector asked for; `SearchInv` holds |
| `payload` | every command line of up to two of 44 arguments and of three of seven that work on each other; nine sets of files with ten cuts and two leads; both firmwares | the BCD is the documented one, but for the elements of `Departs`; no patch is refused by the BCD that is shipped; the hive stays sound; the files are those packed, the boot manager the right one; every step leaves less to do |
| `efi_boot` | up to three handles from a pool of 13 (disks, partitions, DVDs, ghosts, floppies, media to skip), and four or five of one or two disks, in every order; both ways to load the initrd, a UINTN of 64 and of 8 values, up to two failing calls | the disks are those of the firmware; the boot manager starts only with the devices and itself in place, and with a wrong screen or a part of the initrd only where the loader does not look; the wrapper refuses once; the loader ends |
| `regview` | keys of three subkeys and two values, any of them damaged, in plain lists and in lists of lists; damaged or missing lists; five kinds of damaged bins | listing, searching and what is there agree; opening ends |
| `codecs` | every sequence of up to six bytes, and the streams of every text of up to four tokens | encoded texts are decompressed; the passes agree |
| `disk_chain` | the wanted partition is the third logical one | `FindsFirst` is violated (finding 3) |
| `disk_loop` | a table that links to itself, in a loader built with `make DEBUG=0` | `PartitionsLimited` is violated (finding 4) |
| `vdisk_last_slot` | one read of the disk's last sectors, 32-bit | `WritesInBuffer` is violated (finding 1) |
| `boot_memory_hole` | a map with a hole above bootmgr.exe | `InitrdIntact` is violated (finding 2) |

Why the bounds suffice. The code compares LBAs only with boundaries of the layout, so
requests from five sectors before to two sectors after every boundary, of 0, 1, 2 and 7
sectors, put each end of a request on either side of each boundary and let
requests cross several regions. The scaled disk keeps the relations of the source: a slot
holds exactly as many bytes as a 32-bit integer counts, an `unsigned int` counts
eight slots of sectors, the disk ends inside the last of them, and the clusters of the
directories share the first FAT sector. The file lengths are the empty file, a
whole number of clusters and the longest possible. The table holds three files (63 in the source),
so the full table and the fatal path happen. In `boot_memory` the initrd is
shorter than a page, longer than two 2 MB pages, aligned and not, and each of the
outcomes of either relocation (moved, stays, no entry fits, paging not
available) occurs. In `disk_search` a disk has 24 or 32 sectors, an address reaches 4 cylinders, and disks
exist that CHS mode reaches entirely and only in part, with a geometry from the BIOS, with an assumed one,
and with none. Four faults (`MaxFaults`) are enough to exhaust the three tries of one
sector after the change to CHS mode; a fifth meets only states of the same kind.
Five partitions are allowed (`PartLimit`, 32 in the source; three in `disk_loop`) and four drives are tried (`MaxDrives`,
16), so that both limits are reached: one disk has five partitions, and on another a table links to itself. The proofs remove the bounds for
`vdisk_read` and the driver on top of it, for the placement of the initrd, for the search, for the search for the INT 13 drive, for the archives and the command lines of `payload`,
and for the failures and machines of `efi_boot`.

In `payload` two arguments are enough for one to undo another, and the seven that share fields come in threes;
the texts are shorter than, as long as and longer than their buffers. The table of files holds five
(`MaxFiles`, 63 in the source) and the first is the BCD, so that it is full with the fourth member and over-full with the fifth; a `size_t`
(`SizeMod`) is wider than any archive, as in both programs; the cuts lie inside the
trailer, at its start, and inside the last file's data and header. In `efi_boot` two faults let one failure be
survived and another happen behind it; a UINTN of 8 values is two pages, so that files of 7, 8 and 11 bytes are one whose
pages cannot be counted, one of which nothing is left and one of which a part is left; and two graphics outputs are opened up to `MaxOpens` times each. In `codecs`
a code has up to `WordBits` = 4 bits with a lookup of one, so that the lookup is exact for some symbols and a first guess for others; a match's
length is stated in the symbol, in a byte and in a word; blocks of five bytes end inside a match; and
the split of LZNT1 moves.

Fairness. `vdisk_read`, `main` and `efi_main` are sequential code that nothing preempts, so each
step that is possible is taken: weak fairness of `ReadStep`, of `Loading`, of `Search` and of `Loader`
(the firmware returns from every call, successful or not); `RegView` is one sequential
program. The callers' requests are not fair, nor is what the boot manager does in `EfiBoot`. The driver of `FatDriver` continues a lookup
it has begun. `die` waits for a key for ever: no liveness is claimed after it. `Payload`
needs no fairness: `Progress` is a measure that every step decreases, and a state without a next step would be
reported as a deadlock. `CHECK_DEADLOCK FALSE` stands where the system ends.

## 4. Proofs

`VDiskProofs` proves, for every value of the constants that satisfies the named assumptions of
`VDiskInv`,

* `TypeCorrect`: `Spec => []TypeOK`, with exactly the first `index` slots in use;
* `ReadInvariant`: `Spec => []ReadInv`;
* `ReadIsCorrect`, `ReadStaysInBuffer`, `ReadAdvances`: the three safety properties;
* `Refinement`: `Spec => ImplementsVDiskSpec`;
* `SourceGeometry`: the numbers of `vdisk.h` satisfy `GeometryOK` and `WidthsOK`, with 32-bit
  and with 64-bit `unsigned long`, so the theorems apply to the source's disk.

The assumptions are `GeometryOK` and `WidthsOK` (facts about `vdisk.h`, proved of it), that
file lengths are `uint32_t`, and `RequestOK`: a request is at most 4 GB, the slot it
ends in ends below 2^32 sectors if `unsigned long` has 32 bits, and it does not run
from the unused clusters into the first slot. Finding 1 and the first
remark below it show that the last two are needed.

`ReadCorrect` speaks only of the moment of return, so it is not inductive.
`ReadInv` adds what holds between two steps: the sectors before `data` are already right
and `data` is exactly as far as `frag_start` (so a wrong advance cannot be made up for later);
the regions already scanned do not meet the fragment (`Misses`), which is what makes the
fragment that passed all nineteen of them an unused one; and when the builder is called it
is the one whose region, slot or gap contains the whole fragment (`BuilderOK`). From there
one lemma for each builder shows that every sector it makes satisfies `Shows`. The arithmetic of
`div` and `%` on products of constants, which the SMT backend cannot do by itself,
is in `ArithLemmas`. The refinement maps all steps of a read but the last to stuttering and
the last to `SpecAnswer`.

`DiskSearchProofs` proves, for all machines, geometries and limits and whatever reads fail,

* `SearchIsSound`: `Spec => []SearchInv`;
* `SectorsAreRight`: `Spec => []ReadsRightSector`;
* `SearchTyped`: `Spec => []TypeOK`;
* `FoundAlways`: `Spec => []FoundInv`, and `FoundPartitionIsWanted`: `Spec => []FoundIsWanted`;
* `FirstAlways`: `Spec => []FirstInv`, and `FirstIsFound`: `Spec => []FindsFirst`;
* `LimitAlways`: `Spec => []LimitInv`, and `ChainsAreLimited`: `Spec => []PartitionsLimited`;
* `CallsAreLinked`: `Spec => []LinkInv`, and `ListIsWalked`: `Spec => []ListInv`, on which these rest.

The first three assume of the machines that the firmware tells the truth: the geometry that INT 13 reports is the
one by which it finds a sector, and where it reports none it uses the usual 255 heads of 63 sectors.
`ReadsRightSector` is not inductive: that the sector read at an address is the right one needs the address to be
that of the request, although the mode changes while the request is pending (`RequestsKnown`), and the
geometry in `disk_data` to be the disk's, although it was taken from one of two
sources (`GeometryKnown`). The lemma `ChsRoundTrip` then shows that the address leads
back to the sector. Sectors from 1024\*255\*63 up to the limit that `biosdisk_read_real` checks
(1024\*256\*63) would wrap the ten bits of the cylinder with the assumed geometry; the property excludes
them. Where the BIOS reports at most 1024 cylinders they cannot be asked for.

That the partition found is a wanted one needs in addition that the tables are true (`TablesAssumption`): where an
entry of a table of the disk leads to a file system, the disk has such a partition with that identity; what an extended
entry leads to, by the computation of the code, is a table or has no signature (because of finding 3 the code also looks
where no table is: the data of a partition must not look like one there); and no entry lies in the band of cylinders
just described. `FoundInv` follows the search: the frame of each call of `check_mbr` on `stack` holds a table of the
disk, read from its sector (`StackKnown`); the header and the entry at hand are those of the disk's GPT (`GptKnown`);
the sector that is waited for is the one the state requires, and when it has come it is that sector of the disk
(`AskedKnown`, `SectorKnown`), although the mode of reading may have changed in between. A UUID that matches is
therefore that of the entry whose identity is written.

That it is the *first* wanted one, and that none is missed, relates two orders: the walk's, which goes down into each
extended partition and comes back, and the listing's. `OrderAssumption` says what the tables of a disk must be like, with
`before` as the bridge: an entry that leads to a file system the loader knows leads to the partition that is next in the listing,
and an extended one to a table whose partitions have the place of the entry. It also says what finding 3 makes necessary: a
table that the code cannot reach, because it computes another sector, counts as not there, so that a disk with
a third logical partition does not satisfy the assumption if the listing has it (`disk_chain`). Where CHS mode reaches only
a part of a disk no entry may lead beyond its end, because the failure there would end LBA mode for the whole disk. Unless the loader
was built with `DEBUG=0`, a disk has no more partitions than the limit. Then

* `LinkInv`: the frames on `stack` form a chain that begins at sector 0; each waits at the extended entry whose target is the
  table of the next, and the sector that has been read is exactly the one that the entry at hand leads to;
* `ListInv`: the walk of the GPT begins with its first entry and does not pass its last;
* `FirstInv`: no wanted partition is on an earlier disk, or on this one with a number up to `Place`, which is the `before` of the
  entry at hand (`NonePassed`); a read that fails is of a sector that cannot be read (`ReadsReach`, `ProbeReaches`: up to two faults are made up for by
  the three tries and the change to CHS mode, which `ModeReaches` needs to be possible); and `part_count` is not ahead
  of `Place`, so that the limit does not end the walk before the last partition (`PartsCounted`).

When a call returns, the place after its last entry is the place after the entry of its caller (`PopOrder`); a partition
whose UUID does not match is passed (`EntryPassed`); and when the last entry of the last list is passed, none is ahead on this
disk (`AllPassed`).

`PartitionsLimited` is not inductive either. `LimitInv` gives two reasons why the calls of `check_mbr` cannot be deeper than
the limit and one more, and `LimitAssumption` says that every disk has one of them: its tables are nested no deeper
(`DepthNested`: there is a rank that goes down from each table to those it leads to), or the loader was built with `DEBUG`, as it is by default, and each table but the
first has a partition before the entry that leads on (`DepthCounted`), so that `part_count` grows with `stack` and the limit ends
also a chain that forms a loop. Without either the depth is not limited: finding 4.

`BootMemoryProofs` proves, for all memory maps, page sizes and initrds that satisfy the assumptions of `BootMemoryInv`,

* `BootInvariant`: `Spec => []BootInv`, and `MemoryTyped`: `Spec => []TypeOK`;
* `FilesSurvive`: `Spec => []InitrdIntact`;
* `LowMemoryStays`: `Spec => []LowMemoryMapped`;
* `WritesOnlyRam`: `Spec => OnlyRamWritten`.

`AddressAssumption` is what main.c and paging.h fix: addresses that are multiples of a page where they must be, a copy window
above the first megabyte and below the end of bootmgr.exe. `MachinesAssumption` is what is asked of
the machine: the boot loader put the initrd above bootmgr.exe and below 4 GB, and an entry of the map in which the initrd
fits has its place above bootmgr.exe (`RoomAbovePe`); `boot_memory_hole` shows that the last is needed.

`InitrdIntact` says nothing of the middle of a copy. `BootInv` says of every byte that it is either at
home, with its page mapped to itself, or moved, with its page mapped to the copy (`CopyInv`), and that the copy stops only
at boundaries of pages: otherwise mapping a page would hide bytes of it that are not copied yet. Since the copy
lies above 4 GB and the sources below, no step writes over a byte that is still to be read. `MemmapNext` chooses the
next entry that the e820 walk accepts; the lemma `LeastNatural` gives its choice a meaning: it is the one form of induction that the provers
can use here, a least counterexample.

`FatDriverProofs` proves of the INT 13 drive, for every set of BIOSes with at most 127 hard drives
(`BiosesAssumption`; the numbers 0x80 to 0xFF leave no place for more and the virtual one), however many of them go meanwhile,

* `DriveInvariant`: `DriverSpec => []DriveInv`, and `DriveIsFound`: `DriverSpec => []DriveFound`.

`DriveFound` speaks of the end of bootmgr's search. `DriveInv` adds that the virtual number lies above every drive of
the BIOS, also after drives have gone, that the answer to the count reaches it (the handler raises it if not), and that
the search has missed nothing below the number it has come to (`FoundBelow`).

And of the driver on the virtual disk, for every size of the disk, every table of files, every path and each device,

* `DriverInvariant`: `DriverSpec => [](ReadInv /\ DriverInv)`;
* `FileIsDelivered`: `DriverSpec => []FileDelivered`;
* `FileIsFound`: `DriverSpec => []FileFound`;
* `ReadsStayOnDevice`: `DriverSpec => []ReadsOnDevice`.

The assumptions are those of `VDiskInv` and three more. `ReadsAssumption`: a read of a cluster in any slot keeps its
length and its end in their widths, which `SourceGeometry` proves of the numbers of `vdisk.h`. `NamesAssumption`: names
are strings, and none is a directory's, since such a file would be hidden behind the directory. `PathsAssumption`: a path
names something.

`ReadInv` is not invariant on its own here, because `RequestOK` is asked of every request: so the two are proved
together. What the driver asks for comes from what it has read, and each of these numbers has to be one that
`RequestOK` admits (lemmas `Askables`, `RequestFits`). Conversely what it reads is, by `ReadInv`, what `Shows` promises;
`DriverInv` says what it has concluded from that. `PathInv`: the rest of the path can be walked from the directory at
hand (`Reaches`), and the name looked for is in no sector of the directory already seen (`Unlisted`); the lemmas
`SubDirsFound` and `ListingFound` say exactly which names each of the directories' sectors lists, and `NameDecoded` that
the parts of a long name, which the directory builder spreads over records in reverse, decode to the name as stored.
`DataInv`: the bytes obtained are the first ones of the first file of the name, and the cluster at hand is the next one
of its slot (`FileChain` shows it of the FAT entry, `DeliveredMore` extends the bytes by a cluster). Each builder may
be right by itself; the induction fails if two of them disagree.

`EfiBootProofs` proves, for all machines whose fields have their types (`MachinesAssumption`), however many calls fail,

* `EfiInvariant`: `Spec => []EfiInv`;
* `BootStateHolds`: `Spec => []BootState`;
* `RefusedOnceHolds`: `Spec => []RefusedOnce`;
* `DisksFound`: `Spec => []DisksAsFound`, if no two handles have the same device path (`HandlesAssumption`; UEFI has the
  firmware refuse a path that is there already);
* `EfiTyped`: `Spec => []TypeOK`, also of the lists of handles while the devices are named.

`EfiInv` says by phase what is already true: the mode of the screen while no call has failed (`ScreenInv`), the devices (`DeviceInv`),
and of the initrd (`InitrdInv`) that the way to the file leads past the media only after a failure, that the length a file
was given memory for is its own, from its beginning, unless a call failed or a UINTN is too small for it, and that
it fits into its pages or has none (`Fits`). An output without the marker has not been refused, and if the
wrapper is there every attempt at it failed, so it was opened at most `faults` times (`GopInv`): that is what makes
`RefusedOnce` inductive.

`DisksAsFound` compares the lists, which depend on the firmware's order of handles and on the marks (`ldp`) that earlier
turns of the loops have removed, with a definition in terms of the set of media. `DiskInv` says by phase, while no call
has failed: every medium is a device or still among the handles (`Making`); after `n` turns of the first loop exactly
those devices have lost their mark that are a partition among the first `n`, or a disk with one among them (`Decided`);
the lists hold those disks and, after the turns of the second loop, the marked devices that are no ghosts; and each list
holds a disk for its reason (`AsHd`, `AsCd`). A turn cannot find the disk of a partition without its mark
unless the disk is in a list already, which is why the early return there loses nothing. That the lists stay sorted and
name a disk once needs that `compare_device_paths` is a total order, also where one path is
the beginning of another and the end node decides (`PathsOrdered`, `PathsTransitive`; `DisksOrdered`,
`DisksTransitive` for the order by the last node first), and that `add_device` finds the right place in such a list (`AddedDevice`).

`PayloadProofs`, and `ExtractProofs` for the files, prove for every command line, however the search
ends, and for all archives and files,

* `BcdIsDocumented`: `Spec => []BcdAsDocumented`;
* `TemplateIsAccepted`: `Spec => []TemplateAccepted`;
* `HiveSoundness`: `Spec => []HiveStaysSound`;
* `FilesDelivered`: `Spec => []FilesAsPacked`, and `BootmgrDelivered`: `Spec => []BootmgrIsDelivered`;
* `ProgressIsMade`: `Spec => Progress`, and `TypeCorrect`: `Spec => []TypeOK`.

`HiveStaysSound` looks at the lists of elements of the BCD's objects. `HiveInv` says it of every key, and besides that no
two keys share a list of subkeys: otherwise the deletion of an entry from one list would leave the count of the other
key wrong. It also keeps the way to the elements of the objects, which a deletion elsewhere could have cut off. The
assumption on the BCD, `TemplateAssumption`, is a closed fact about `utils/bcd` as `BcdTemplate` has it; TLC evaluates
it. `SameTreeSound` handles all patches that change only contents, and only deletion is left.

`BcdAsDocumented` compares two ways to say one thing: the code's, argument by argument and patch by patch, and the
documentation's, for the whole line and element by element. The proof has four parts.

* *The line.* `LineInv`: after `n` arguments each field is what the last one of them that sets it made it, or its initial
  value (`LineArgs`). From that the lemmas about the fields show that each setting that `PayloadProps` asks for in terms of
  the documentation ("the last argument that names a path") is the field that `bcd_patch_data` reads, also for the fields that
  several keys set. `LineAssumption` says only that the arguments are typed texts.
* *The hive.* `PatchInv`: the objects and the way to every element and its value are those of the BCD that is shipped
  (`Layout`), deleted or not; a patch done shows in its element; an element that no patch named is as shipped. This needs
  that different elements have different keys and values. `ShippedAssumption` states that, and that the lengths are those
  of `Elements`; like `TemplateAssumption` it is a closed fact about `utils/bcd`, which TLC evaluates.
* *No patch fails.* With `Layout` a patch finds its element unless it was deleted before, so `TemplateIsAccepted` comes down to this:
  no two patches that one boot type selects name the same element, and the length each one writes is that of the value, also for the longest
  path, which is what the cuts in `process_cmdline` are for. `OpenInv` says the same of opening: the bins are still those shipped.
* *The promise.* Every patch selected writes what `PayloadProps` wants of its element (`Matches` in the proofs), every element
  that is wanted different from the shipped one is the target of exactly one patch, and the elements still listed are
  those that no patch deleted. So the live elements are the wanted ones, with the wanted values, but for those of `Departs`.

A wrong default, a patch in the wrong group and a deletion that takes a wanted element away would each break
one of these parts. `bcd_replace_suffix` is part of it: it changes every value that ends in the suffix, so each text has to be
a program, or not to end like one (`RightIsCorrected`, `RightIsPlain`), or to be one of `Departs`.

`Progress` is a lexicographic order on six numbers (the phase, and what is left of the arguments, the
archive, the hive, the groups of patches and the patches), and `ProgressIsMade` shows that every step
goes down in it.

`ExtractInv` says that the reader stands at the header of the member that follows the last file delivered, or, in an
archive that is not whole, where it will find nothing (`ReaderPlace`). That the place computed from the lengths in the
headers is the one at which `mkinitrd` put the next header is a fact about recursive sums, proved by taking the first
member for which it would be false. `MachinesAssumption` (`ArchiveOK`) states what the program cannot notice: sizes that
overflow a `size_t`, a file that is called like the trailer, and a file that became shorter by exactly the length of
members that follow it, whose disappearance no reader could see.

Only model-checked: the liveness properties (fairness and `ENABLED` are out of the prover's reach); the types of `RegView` and `Decompress`;
`ListingAgrees` (over hives whose entries refer to cells that are there, as in `MCRegView`), `StreamsDecoded` and
`PassesAgree`, whose operators compute with recursion over lists, so that what they say needs induction over data.

## 5. Findings

1. `vdisk_last_slot`: in the BIOS program the end of the last slot, `VDISK_FILE_LBA (file_idx + 1)`, is
   2^32 and wraps to 0 for sectors that INT 13 reports as part of the disk; the
   builder then clears memory far beyond the caller's buffer.
2. `boot_memory_hole`: `relocate_memory_low` takes the first entry of the memory map that is large enough. If
   that entry ends just above bootmgr.exe's address (a 15-16 MB memory hole), the initrd is moved
   to where bootmgr.exe is then loaded.
3. `disk_chain`: the link from one extended boot record to the next counts from the start of the
   extended partition; `check_mbr` adds it to the record it is in. The second logical partition is
   found, because its record is reached from the first one; the third is not.
4. `disk_loop`: `check_mbr` counts the partitions in an argument of `DBG` (msdos.c:66). `DEBUG` is 1 unless it is set
   (ntloader.h:23-25) and the released loader is built with plain `make`, so there the count and its limit of 32 work, as
   `disk_search` shows. `make DEBUG=0` (Makefile:103-105) makes `DBG` expand to nothing: in such a loader
   the limit is never reached.

Remarks without a run of their own, which the assumptions and properties named make visible:

* A read that begins in the unused clusters below the first slot (LBA 0x800000)
  and ends in the slot is not cut at the slot: the file's sectors read as zeros (vdisk.c:606).
  A driver that reads cluster by cluster never makes such a read; `FatDriver` shows it, `RequestOK` excludes it.
* For a logical partition `check_mbr` takes the disk's signature from the extended boot
  record, where there is none, instead of from the disk's first sector (msdos.c:73); `FoundIsWanted` allows for it.
* A bin of size 0 keeps `validate_bins` in place for ever (reg.c:867); `OpenEnds` excludes it.
* `altshell` without `safemode` boots into safe mode, against docs/cmdline.md:106 and 130 (cmdline.c:222); `BcdAsDocumented` excludes
  the two elements concerned. So it does with texts that `bcd_replace_suffix` wrongly changes or leaves (section 2).
* A screen that cannot be switched, a size that cannot be told and a file of 4 GB or more in the i386 EFI program do not end the
  boot (efiboot.c:164, efifile.c:91-97); `BootState` allows for them.
* With the assumed geometry of 255 heads, the limit of CHS mode (biosdisk.c:254) lets pass sectors whose cylinder has more than ten
  bits; `ReadsRightSector` excludes them.
* The passes of `bmtool` may differ when the first reads beyond the image (bmtool.c:198); `PassesAgree` excludes that.
* A name of up to 256 characters is converted into a buffer of 256 bytes (regview.c:101).

## 6. Not modelled

The virtual disk, its users and the memory the files are in came first, because everything bootmgr reads depends
on them; then the search, the payload, the EFI program, and the tools that share code with the loader. What is left out:

* `posix/` (strings, printf, memory allocation): sequential functions without state, modelled by their effect where
  they are used; `kern/cookie.c`, a hook of the compiler; `kern/efiterm.c` but for the console's mode.
* `startup.S`, `callback.S` and the linker scripts: the switch of processor modes is below the level of these
  models. The individual checks of the PE header in `load_pe` are one failing step, `BootFails`; the masking of
  VESA modes (main.c:89) has no effect on the state modelled.
* The services of INT 13 and of EFI Block I/O that do not touch the disk: the extension check, reset, write (refused) and flush.
* `vdisk_patch_file`, which nothing calls, and the bytes that only identify the disk.
* `utils/elf2efi.c`, `bin2c.c` and `fsuuid.c`: each converts one file, without state. What `fsuuid` shares with
  the loader is `check_fsuuid` in `DiskSearch`.
* `include/efi/`: declarations of the EDK2 project, about two thirds of all lines of the repository, which contain no behaviour.

What could still be added: the division of the command line into words.
