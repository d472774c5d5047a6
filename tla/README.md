# Verification of the immune Guard drivers in TLA+

These modules model the firmware-access drivers of this repository. Each
module is written from the C code under `src/driver/`. TLC checks them on
small instances. TLAPS proves the invariants of the region reader and the
PCI driver's reference counting for every value of their constants.

## The system

Five C files make up four drivers. Each one mediates one kind of hardware
access for a user-space agent.

| Source | Part | What it does |
|---|---|---|
| `linux/flash_mmap-1.0/flash_mmap.c` | Region Reader (flash), Linux module | sysfs binary attribute `/sys/firmware/flash_mmap/bios_region`. `bios_region_read` maps at most two pages of the 16 MiB flash window at `0xFF000000` and copies at most a page. Init/exit create and remove the kobject and the attribute. |
| `linux/txt_mmap/txt_mmap.c` | Region Reader (TXT), Linux module | The same handler (`public_space_read`) over the 64 KiB of TXT public space at `0xFED30000`, under `/sys/kernel/txt_mmap`. Init/exit differ from flash_mmap (see findings). |
| `win64/immunePCI_control/pcicontrol.c`, `.h` | PCI Config Reader | KMDF control driver. `IOCTL_PHYMEM_GETPCI` validates a `PHYMEM_PCI` request, acquires `PCI_BUS_INTERFACE_STANDARD` lazily from the `immunePCI_flt` filter through an I/O target, caches it in the global `busInterface` block, and calls `ReadConfig` at DISPATCH_LEVEL. Unload dereferences and frees it. |
| `win64/immuneCPU/cpudriver.c` | Physical-Memory Reader, TXT gate, MSR Reader | KMDF control driver. `IOCTL_IMMUNE_GETFLASH` and `GETTXTPUB` map and copy a fixed physical range (`ReadPhysicalMemory`); GETTXTPUB first checks the vendor, SMX and `IA32_FEATURE_CONTROL`. `IOCTL_IMMUNE_GETMSR` pins the thread to a CPU, applies the deny list `CheckMSRAllowed`, and runs `rdmsr`. |

The drivers do not talk to each other; each one talks to its client and to
the kernel. The interactions that matter are these:

- between the Linux handler and kernfs, which clips counts and tracks the
  file position;
- between the handler and the module life cycle, which decides when the
  attribute exists;
- between the Windows drivers and the KMDF framework (load, queue, unload);
- between the PCI driver and the bus driver behind the filter.

Both KMDF drivers use a `WdfIoQueueDispatchSequential` default queue on an
exclusive device (pcicontrol.c:126 and :93, cpudriver.c:116 and :83). The
framework hands them one request at a time. The Linux handler keeps no state
between calls, and its mapping lives inside one call. In every model, a
request or a call is therefore one atomic step.

## Modules

| Module | Models | State | Actions |
|---|---|---|---|
| `SysfsRegionHandler` | the arithmetic of `bios_region_read` / `public_space_read`: the region constants, offset wrap, page base, `copysize`, `remapsize`, one call's record `RegionRead(off, count, mapped)`, and kernfs's count clip | (constants only) | (operators only) |
| `SysfsRegion` | `bios_region_read` / `public_space_read`, with its caller; EXTENDS `SysfsRegionHandler` | `pos` (the file position kernfs keeps), `last` (what the last call computed: offset, page base `pa`, `copysize`, `remapsize`, whether `ioremap` succeeded) | `Seek`, `ReadEOF` and `Read` (the kernfs path: count ≤ one page, cut at `i_size`, returns 0 at the end), `DirectCall` (the handler's own contract, any offset and count) |
| `LinuxRegionModule` | `*_mmap_init` / `*_mmap_exit`, composed with `SysfsRegion` by `INSTANCE` | `module`, `kobjRef`, `kobj`, `attrs` (the directories holding the attribute), plus SysfsRegion's state | `ModuleInit` (kobject or attribute creation may fail; do_init_module loads on a non-negative return), `ModuleExit`, `UseAttribute` (a seek or read while the attribute exists). The two modules' init functions are one operator, `InitReturning(ret)`, differing only in the value returned when the kobject is not made (`FlashInit`, `TxtInit`). Their exit functions are one operator, `ExitRemovingFrom(dir)`, differing only in the directory the attribute is removed from (`FlashExit`, `TxtExit`). `Variant` selects the module. |
| `PciControl` | the whole PCI control driver | `phase`, `busInterface` (`null`/`zeroed`/`filled`/`freed`), `refs` (interface references), `targets` (I/O targets alive), `last` | `Load` (every failure point of DriverEntry/DeviceAdd), `Reject`, `ReadPci` (acquisition with create/open/query failures, slot encoding, ReadConfig's byte count), `Unload` |
| `CpuDriver` | the whole CPU driver | `phase`, `platform` (CPUID and FEATURE_CONTROL answers), `mappings` (MmMapIoSpace mappings not unmapped), `affinity` (CPUs the thread is pinned to), `last` | `Load`, `Reject`, `GetFlash`, `GetTxtPub`, `GetMsr` (index check, pin, deny list, rdmsr fault), `Unload` |
| `PciMediator` | what the PCI driver promises its client (spec 4.5), not code | `state`, `handle` (the Bus Interface Handle: `uninitialized`/`acquired`/`released`), `answer` (the request, whether configuration space was read, the bytes reported) | `Start`, `Refuse(req)`, `ReadConfig(req)` (only for a readable request, acquiring the handle), `Stop` |
| `CpuMediator` | what the CPU driver promises its client (spec 4.2 to 4.4, 7), not code | `state` (`before`/`up`/`after`), `platform`, `answer` (the request served, the resource accessed: `none`/`flash`/`txt`/`msr`, and the bytes reported) | `Start`, `Serve(req)` (any answer in `Answers(req)`), `Stop` |
| `SysfsRegionHandlerProofs` | TLAPS lemmas about the handler's arithmetic, used by `SysfsRegionProofs` | | |
| `SysfsRegionProofs`, `PciControlProofs`, `CpuDriverProofs`, `LinuxRegionModuleProofs` | TLAPS proofs about the module of the same stem | | |
| `MC*` | TLC instances | | |

How the models abstract the code:

- **Data.** Physical memory is represented by addresses: a copy is the
  range of physical addresses it reads. MSR numbers are names, and the
  vendor string is a Boolean.
- **Masks.** The bit masks become arithmetic on the power-of-two sizes:
  `x & (SIZE-1)` is `x % SIZE`, and `x & PAGE_MASK` is `x - x % PAGE`.
- **ULONG.** ULONG sums are taken modulo `2^UlongBits`.
- **Bus, device and function.** These fields keep their bit widths (8, 5
  and 3), scaled down.
- **Shift by a CPU index.** `1ULL << index` is undefined in C for an index
  of 64 or more. The x64 `shl` the build emits keeps the low six bits of the
  count, so the model takes bit `index % MaskBits` (MaskBits stands for 64).
  `KeSetSystemAffinityThreadEx` takes a plain mask with no group and moves
  the thread into group 0, so the pin is CPU `index % MaskBits` of group 0,
  whatever group the caller ran in (`PinTarget`). Processors are numbered
  in full groups of `CpusPerGroup`.
- **Environment.** Every outcome the code does not control is a
  nondeterministic choice:
  - allocation, I/O target and interface query failures;
  - `ioremap` and `MmMapIoSpace` failures;
  - a fault in the copy or in `rdmsr`;
  - the byte count `ReadConfig` returns.

## Runs

Every run's cfg is named in `PROJECT.json`. Pass runs also carry one mutant
per property: a plausible bug in a mapped definition that TLC must catch.

Pass runs:

- **region_kernfs.** `WindowCoversRequest`: through kernfs, over any
  sequence of seeks and reads, the `ioremap` window covers the bytes each
  call copies.
- **region_direct.** `TypeOK`, `ReadInsideRegion` and `BufferNotOverrun`:
  for any offset and count, the handler reads only its region and copies at
  most the count.
- **linux_module.** The life cycle composed with kernfs reads:
  `AttributeOnlyWhileLoaded`. The attribute, which is the only way into
  the handler, exists only while the module is loaded. This holds for
  txt_mmap even though its exit removes the attribute from the wrong
  directory. The reads themselves are SysfsRegion's (`ImplementsReads`),
  so region_kernfs's window property is not checked again here.
- **pci_control.** Over loads with every failure and over request sequences
  with failing and succeeding acquisitions:
  - `InterfaceHeldOnce`: the interface is referenced exactly while cached;
  - `IoTargetNotLeaked`: failed attempts delete their I/O target;
  - `NoQueryIntoNull`;
  - `MediatorSpec`: the driver implements `PciMediator`, spec 4.5's
    promise. The mapping at the end of `PciControl` sends `loading` to
    `before`, `running` to `up` and every other phase to `after`. A
    `filled` block is the `acquired` handle, a `freed` block is the
    `released` handle, and any other block is `uninitialized`. The last
    record becomes an answer. `Readable` includes the output-length test
    of line 385. The mutant that reuses any allocated block without
    acquiring breaks it.
- **cpu_driver.** On every platform variant and request:
  - `DeniedMsrNeverRead`: checked against the spec's own list of six MSRs;
  - `TxtReadOnlyWhenCapable`;
  - `MediatorSpec`: the driver implements `CpuMediator`. The refinement
    mapping, at the end of `CpuDriver`, maps the phases to the mediator's
    states and the driver's last record to an answer (`AnswerOf`): the
    resource it touched and the bytes it reported. The mediator's
    `DeniedMsrs` is instantiated with the spec's list (`SpecDeniedMsrs`),
    so the run also checks the code's deny list against the spec.
    `Answers` allows a flash or TXT access only into a buffer that holds
    the range. The mutant that accepts a CPU index equal to the active
    count breaks it.

Violation runs (each is a finding in `PROJECT.json`):

- **region_unaligned_bytes.** `memcpy_fromio` copies from the page base, not
  from the requested offset, so an unaligned read returns the wrong bytes.
- **linux_init_ret.** When `kobject_create_and_add` fails, flash_mmap's
  init returns `+EINVAL`, and the kernel keeps the module loaded with no
  attribute. txt_mmap's init returns 0 in the same case (set
  `Variant = "txt"`).
- **pci_bounds_overflow.** `dwRegOff + dwBytes` wraps in ULONG and passes
  the `<= 4096` check. In the trace, `dwRegOff` is the top of the scaled
  ULONG and `dwBytes` is 1. A large `dwBytes` would also need an output
  buffer of that size, so the offset is the operand to bound.
- **pci_pool_leak.** When `WdfIoQueueCreate` fails, the block allocated
  just before it leaks. Unload has the same gap: it frees the block only
  after a successful query.
- **cpu_mapping_leak.** A fault in `RtlCopyMemory` skips `MmUnmapIoSpace`.
- **cpu_affinity_leak.** GETMSR never reverts the affinity it sets. It sets
  it also when the MSR is denied or `rdmsr` faults.
- **cpu_msr_wrong_cpu.** The index is checked against the processors of
  all groups, but the pin is always into group 0. The trace asks for
  index 2, the first CPU of group 1, and reads on CPU 0 of group 0.

Smaller notes that have no run:

- The `ioremap` result is not checked, so a failed mapping is followed by
  `memcpy_fromio` from NULL (flash_mmap.c:43, txt_mmap.c:35).
- Near the region end, a direct call to the handler with a count over a
  page copies past the two-page window. Spec 4.1 step 3 prescribes this
  clip, so the spec contradicts its own window invariant. kernfs never makes
  such a call.
- Bus, device and function numbers out of range are truncated, so another
  device is read. Neither the spec nor the code says what should happen.
- A failed PCI interface acquisition is reported as
  `STATUS_INVALID_PARAMETER`, where the spec names `NoBusInterface`.
- When `txt_mmap_exit` calls `sysfs_remove_bin_file(kernel_kobj, …)`, the
  call finds nothing to remove.

### Bounds and why they suffice

- **SysfsRegion.** Pages of 4 bytes, and a region of 16 bytes (4 pages)
  starting at 8.
  - Kernfs offsets run 0..18, past the end, with counts 0..6, up to 1.5
    pages.
  - Direct offsets run 0..33, so the mask wraps, with counts 0..17, past
    the region.
  - These include reads that cross a page, reads that reach or pass the
    end, and unaligned ones. The arithmetic depends only on page and
    region multiples, and the theorems cover every size.
- **LinuxRegionModule.** The same region, offsets and counts as
  SysfsRegion's kernfs bounds. Every init failure point and exit are
  reached, with reads before exit.
- **PciControl.** `UlongBits = 4`, so the overflow needs only offsets up
  to 15. The config limit is 8. Bus, device and function are 1 bit wide,
  with bus 2 out of range. The requests cover every validation branch, and
  every acquisition outcome is tried on every request.
- **CpuDriver.** Two groups of two CPUs and a 2-bit KAFFINITY, so indices
  2 and 3 wrap like index 64 on x64. The lengths are scaled (flash 4,
  TXT 2), with output lengths below, at and above them. The platform set
  is the TXT machine plus the four machines that each fail one gate check.
  Two MSRs are denied (including the last case of the switch) and one is
  allowed. `MaxMappings = 2` caps the leak counter.

No property is a liveness property, and no fairness is assumed. Every
request completes within its one step, and nothing in the code waits for
anything. The driver phases end (after unload, or after a failed load),
so the KMDF and life-cycle runs set `CHECK_DEADLOCK FALSE`.

## What is proved

`SysfsRegionProofs` proves with TLAPS, for every region base, region size,
page size and input set that satisfy `RegionAssumption` and
`InputAssumption`:

- `TypeCorrect`: `Spec => []TypeOK`.
- `ReadInsideRegionHolds`: `Spec => []ReadInsideRegion`.
- `BufferNotOverrunHolds`: `Spec => []BufferNotOverrun`.
- `WindowCoversRequestHolds`: `Spec => [](CallerClips => WindowCoversRequest)`.

The properties are not inductive as stated, because `last` alone does not
say which arguments produced it. The strengthening is
`IInv == TypeOK /\ LastFromCall /\ (CallerClips => LastFromKernfs)`:

- `LastFromCall`: the last record is `RegionRead(o, c, m)` for some natural
  `o` and `c`.
- `LastFromKernfs`: under kernfs, `o < SIZE`, `c <= PAGE` and
  `o + c <= SIZE`.

`IInvariant` proves `Init => IInv` and `IInv /\ [Next]_vars => IInv'` with
one case per action. Each property then follows from a lemma about one call
of `RegionRead`:

- `RegionReadInside`: the copy stays in the region, and copies at most the
  count.
- `RegionReadCovers`: for a kernfs call, the window covers the copy.

These lemmas, kept in `SysfsRegionHandlerProofs`, rest on lemmas about `%`: uniqueness of the remainder (`ModUnique`),
`ModShift`, `ModBound` and `PageDownShift`. The power-of-two assumption is
needed only for masks to equal `%`, and it is checked by TLC alone. The
proofs do not use it.

`PciControlProofs` proves, for every ULONG width, field width, request
size and request set that satisfy `WidthAssumption` and
`RequestAssumption`:

- `TypeCorrect`: `Spec => []TypeOK`.
- `InterfaceHeldOnceHolds`: `Spec => []InterfaceHeldOnce`.
- `IoTargetNotLeakedHolds`: `Spec => []IoTargetNotLeaked`.

`TypeOK` alone is not inductive: `Unload` decrements `refs`, which stays a
natural number only because a filled interface holds exactly one
reference. The invariant used is
`IInv == TypeOK /\ InterfaceHeldOnce /\ IoTargetNotLeaked /\ LoadingClean`,
where `LoadingClean` says that nothing is allocated before DriverEntry
runs. The step proof has one lemma per action. The `ReadPci` lemma splits
into four cases:

- the query into NULL, reachable only with nothing acquired;
- a first successful acquisition, where `refs` and `targets` go from 0
  to 1;
- a failed acquisition, which keeps no target;
- reuse of the cached interface.

`WidthAssumption` states that `2^w` is positive for the field widths. This
holds for every natural `w`. It is an assumption only because the provers
cannot do the induction, and TLC evaluates it on every run.

It also proves:

- `NoQueryIntoNullHolds`: `Spec => []NoQueryIntoNull`.

It rests on `RInv == IInv /\ RunningHasBlock /\ NoQueryIntoNull`. `RunningHasBlock` says that a running driver has its
interface block allocated (`zeroed` or `filled`). Without it, a `ReadPci`
step from a state with no block could reach the NULL query.

`Refinement` proves `Spec => MediatorSpec`: the driver implements
`PciMediator`. The step is proved under `RInv`, one lemma per action:

- `Load` is `Start`, because `LoadingClean` gives a `null` block before
  load and DeviceAdd leaves it `null` or `zeroed`.
- `Reject` is `Refuse`.
- `Unload` is `Stop`: a `filled` block becomes `freed`, and any other
  block is unchanged.
- `ReadPci` splits on the block. With a failed acquisition from `zeroed`,
  the step is `Refuse` and the handle stays `uninitialized`. Otherwise the
  step is `ReadConfig`: the block is `filled` now or was before, and the
  reported byte count is `0` or `bytes`. `RunningHasBlock` excludes the
  NULL query, which no mediator step matches.

`CpuDriverProofs` proves, for every flash and TXT length, CPU count,
processor-group count, deny list, platform set and request set that satisfy
`CpuAssumption` and `RequestAssumption`:

- `TypeCorrect`: `Spec => []TypeOK`.
- `DeniedMsrNeverReadHolds`: `Spec => []DeniedMsrNeverRead`.
- `TxtReadOnlyWhenCapableHolds`: `Spec => []TxtReadOnlyWhenCapable`.
- `Refinement`: `Spec => MediatorSpec`. The driver implements
  `CpuMediator`.

The inductive invariant is the conjunction of `TypeOK` and the two
safety properties. Each holds of the last record alone, so the step proof
has one lemma per handler. Two lemmas describe the helpers' outcomes:

- `ReadPhysicalMemoryEffect`: a map failure, a copy fault or a full copy.
- `RdmsrEffect`: a fault, or eight bytes into a buffer that holds them.

The refinement proof maps every step:

- `Load` maps to `Start`, and `Unload` maps to `Stop`.
- `Reject` and every handler map to a `Serve` of the same request (lemmas
  `*Serve`).
- Affinity and mapping changes map to stutters.

The proof needs the invariant because the answer of a step depends only on
the request and on what the step did. It also needs the handlers' guards
to be disjoint, so `GetMsr` and `GetTxtPub` list their branches as guarded
disjuncts in the code's order.

`LinuxRegionModuleProofs` proves, for both variants and every region:

- `AttributeOnlyWhileLoadedHolds`: `Spec => []AttributeOnlyWhileLoaded`.
- `ImplementsReads`: `Spec => R!Spec`. The composed module's reads are
  SysfsRegion's kernfs reads, because the life-cycle steps leave `pos` and
  `last` alone.
  With `SysfsRegionProofs!WindowCoversRequestHolds`, this gives the window
  property for the module's reads. That last step is on paper: tlapm 1.4.5
  cannot use the theorems of an `INSTANCE`d module.

The invariant adds two facts:

- `AttrsOwnOnly`: the attribute is never in `kernel_kobj`.
- `AttrNeedsKobjRef`: no attribute exists without `kobj_ref`.

With these, txt_mmap's exit removes the attribute through `kobject_put`,
even though `sysfs_remove_bin_file` names the wrong directory.

Model-checked only:

- `PowerOfTwoAssumption`.
- Liveness. No property here needs fairness. Every handler finishes within
  its one step, and nothing in the code waits on anything. KMDF gives no
  promise that a request is ever sent or that the driver is ever unloaded.
  A liveness property would therefore state an assumption about the client,
  not about the code.

## Not modelled

- **File callbacks.** File create and close, shutdown and context-cleanup in
  both Windows drivers complete the request or do nothing, and they keep no
  state.
- **Kernel and framework internals.** kernfs, do_init_module, kobject
  release and the KMDF queue are modelled only by the contracts the drivers
  rely on, as described in the module headers.
- **Bytes.** No byte values are modelled; the models compare only where the
  bytes come from.

## Plan for further work

1. An abstract reader specification for `SysfsRegion`: a read returns the
   bytes of the region at the requested offset. The refinement fails on the
   unaligned-read finding, so a passing run would need the
   page-aligned-reads restriction the code silently assumes.
2. The TXT variant of `SysfsRegion` as its own instance, with the 64 KiB
   region constants scaled down.
