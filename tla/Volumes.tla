------------------------------- MODULE Volumes -------------------------------
(***************************************************************************)
(* Storage devices and the volumes on them: the initial ramdisk            *)
(* (drivers/storage/initrd.c), the ATA driver (drivers/storage/ata.c), the *)
(* partition table (fs/mbr.c) and the volume registry (device/volume.c).   *)
(*                                                                         *)
(* A disk is a sequence of cells, a sector SectorSize of them.  A cell is  *)
(* the unit in which the code reads: a data byte, a block pointer, an      *)
(* inode, a directory entry, a partition table.  Words are [v |-> n].      *)
(***************************************************************************)
EXTENDS Devices

CONSTANTS
  SectorSize,    \* ATA_SECTOR_SIZE
  Word,          \* 2^32: sizes and offsets are 32 bits wide
  ShortId,       \* what generate_short_id can draw
  Writes,        \* what is written to volumes: sequences of cells
  WriteOffsets   \* bound: where it is written, so that the end of the range does not wrap

VARIABLES
  ata_devices,   \* drive -> [present, lba_supported, size]
  disk,          \* what the drives and the initial ramdisk hold
  volumes,       \* [id, name, drive, offset, size], in order of registration
  written        \* the last write: [volume, offset, cells]

storageVars == <<ata_devices, disk, volumes, written>>

(* machine.drives[d] is [kind, lba]: kind is "none", "atapi", "faulty" or  *)
(* "disk".  machine.disk[d] is what is on it when the kernel boots, and    *)
(* machine.initrd says whether a module with the ramdisk's header came     *)
(* with the kernel; what is in it is machine.disk[Ramdisk].  The volume    *)
(* machine.scratch, if not 0, is the one that is written to.               *)

Drive == 0 .. 3      \* primary master and slave, secondary master and slave
Ramdisk == 4

\* Disks and what is written to them are sequences of cells.
ASSUME VolumesAssumption ==
  /\ SectorSize \in Nat \ {0} /\ Word \in Nat /\ SectorSize < Word
  /\ \A m \in Machines :
       LET disks == Drive \cup {Ramdisk}
           cells == UNION {ToSet(m.disk[d]) : d \in disks}
       IN /\ m.disk \in [disks -> Seq(cells)]
          /\ \A cell \in cells :
               "partitions" \in DOMAIN cell =>
                 \A i \in 1 .. 4 : /\ cell.partitions[i].lba_start \in Nat
                                  /\ cell.partitions[i].sectors \in Nat
  /\ WriteOffsets \subseteq Nat
  /\ \A cells \in Writes :
       /\ cells \in Seq(ToSet(cells))
       /\ \A offset \in WriteOffsets : offset + Len(cells) < Word

Zero == [v |-> 0]
Noise == [noise |-> TRUE]     \* what is read where no drive answers

Wrap(n) == n % Word

\* The part of a sequence that begins behind its first `offset' elements.
Slice(s, offset, size) == SubSeq(s, offset + 1, offset + size)

-----------------------------------------------------------------------------
(* The ATA driver.                                                         *)

IoBase(d) == d \div 2           \* ata_get_io_base: the channel
IsMaster(d) == d % 2 = 0        \* ata_is_master

\* ata_device_probe: the drive it selects does not answer, is not an ATA drive or
\* reports an error, or says what it can do.
AtaProbe(d) ==
  LET probed == 2 * IoBase(d) + (IF IsMaster(d) THEN 0 ELSE 1)
  IN IF machine.drives[probed].kind # "disk"
     THEN [present |-> FALSE, lba_supported |-> FALSE, size |-> 0]
     ELSE [present |-> TRUE, lba_supported |-> machine.drives[probed].lba,
           size |-> Wrap(Len(machine.disk[probed]))]

\* The drive that the sector commands reach: they write 0xE0 to the drive
\* register, which selects the master, whichever drive was meant.
Selected(d) == 2 * IoBase(d)

\* ata_read_sector_lba28: a sector that the selected drive does not have brings
\* whatever is on the bus.
ReadSector(d, lba) ==
  [p \in 1 .. SectorSize |->
     LET c == lba * SectorSize + p
     IN IF c \in DOMAIN disk[Selected(d)] THEN disk[Selected(d)][c] ELSE Noise]

\* The conditions under which ata_read and ata_write do nothing.
AtaRefuses(d, offset, size) ==
  \/ ata_devices[d].size < Wrap(offset + size)
  \/ ~ata_devices[d].present
  \/ ~ata_devices[d].lba_supported

FirstSector(offset) == offset \div SectorSize
LastSector(offset, size) == Wrap(offset + size - 1) \div SectorSize

\* How much of each sector is moved.  Where it begins in the sector is set for the
\* first sector and stays for the others.
Begin(offset) == offset % SectorSize
Moved(offset, size, sector) ==
  IF sector = LastSector(offset, size)
  THEN (Wrap(offset + size - 1) % SectorSize) - Begin(offset) + 1
  ELSE SectorSize - Begin(offset)

\* Ranges for which that is right: they begin with a sector or stay in one.
SectorSafe(offset, size) ==
  size > 0 /\ (Begin(offset) = 0 \/ FirstSector(offset) = LastSector(offset, size))

\* Ranges for which more is moved than the buffer holds: the length of the last part
\* is negative, or offset + size - 1 is.
Overruns(offset, size) ==
  \/ FirstSector(offset) < LastSector(offset, size)
     /\ Moved(offset, size, LastSector(offset, size)) < 0
  \/ offset + size = 0

\* ata_read: the cells it delivers.
AtaRead(d, offset, size) ==
  IF AtaRefuses(d, offset, size) THEN <<>>
  ELSE FlattenSeq([k \in 1 .. LastSector(offset, size) - FirstSector(offset) + 1 |->
         LET sector == FirstSector(offset) + k - 1
         IN Slice(ReadSector(d, sector), Begin(offset), Moved(offset, size, sector))])

\* ata_write_sector_lba28
WriteSector(contents, d, lba, sector) ==
  [contents EXCEPT ![Selected(d)] =
     [c \in DOMAIN @ |-> IF (c - 1) \div SectorSize = lba
                         THEN sector[((c - 1) % SectorSize) + 1] ELSE @[c]]]

\* ata_write: every sector of the range is read, altered and written back.
AtaWrite(d, offset, cells) ==
  LET size == Len(cells)
      first == FirstSector(offset)
      altered(k) ==
        [p \in 1 .. SectorSize |->
           IF p > Begin(offset) /\ p <= Begin(offset) + Moved(offset, size, first + k)
           THEN cells[k * (SectorSize - Begin(offset)) + p - Begin(offset)]
           ELSE ReadSector(d, first + k)[p]]
      after[k \in 0 .. LastSector(offset, size) - first + 1] ==
        IF k = 0 THEN disk ELSE WriteSector(after[k - 1], d, first + k - 1, altered(k - 1))
  IN IF AtaRefuses(d, offset, size) \/ LastSector(offset, size) < first THEN disk
     ELSE after[LastSector(offset, size) - first + 1]

-----------------------------------------------------------------------------
(* The initial ramdisk, and the interface both drivers implement.          *)

\* initrd_read
InitrdRead(offset, size) ==
  IF offset > Len(disk[Ramdisk]) THEN <<>>
  ELSE Slice(disk[Ramdisk], offset,
             IF offset + size > Len(disk[Ramdisk]) THEN Len(disk[Ramdisk]) - offset ELSE size)

\* initrd_write: the ramdisk is read-only.
InitrdWrite(offset, cells) == disk

DriverRead(d, offset, size) ==
  IF d = Ramdisk THEN InitrdRead(offset, size) ELSE AtaRead(d, offset, size)
DriverWrite(d, offset, cells) ==
  IF d = Ramdisk THEN InitrdWrite(offset, cells) ELSE AtaWrite(d, offset, cells)
DriverTotalSize(d) == IF d = Ramdisk THEN Len(disk[Ramdisk]) ELSE ata_devices[d].size
DriverSectorSize(d) == IF d = Ramdisk THEN 0 ELSE SectorSize

-----------------------------------------------------------------------------
(* Partitions and volumes.                                                 *)

\* mbr_read: the first sector, whose first cell holds signature and table.  When the
\* driver reads nothing it is what the buffer held, perhaps another boot record.
MbrRead(d) ==
  LET cells == DriverRead(d, 0, SectorSize)
  IN IF cells # <<>> THEN {cells[1]}
     ELSE {Noise} \cup {disk[e][1] : e \in {f \in DOMAIN disk : disk[f] # <<>>}}

\* mbr_probe: the boot record of a file system has the same signature, but not
\* the attributes of partitions.
MbrProbe(mbr) ==
  /\ "partitions" \in DOMAIN mbr
  /\ \A i \in 1 .. 4 : mbr.partitions[i].attributes \in {128, 0}

\* Mutant: the first draw is kept.
GenerateAnyId(list) == ShortId

\* generate_short_id: draws until volume_id_exists says that an id is free.
GenerateShortId(list) == ShortId \ {list[i].id : i \in DOMAIN list}

\* The volume for a whole device, and that for one of its partitions.
DeviceVolume(d, name) == [name |-> name, drive |-> d, offset |-> 0, size |-> DriverTotalSize(d)]
PartitionVolume(d, name, entry, number) ==
  [name |-> Append(name, number), drive |-> d,
   offset |-> Wrap(entry.lba_start * DriverSectorSize(d)),
   size |-> Wrap(entry.sectors * DriverSectorSize(d))]

\* The lists that arise when a volume gets a free id and is appended.
Registered(list, v) ==
  {Append(list, [id |-> id, name |-> v.name, drive |-> v.drive, offset |-> v.offset, size |-> v.size]) :
     id \in GenerateShortId(list)}

\* volume_register_device: one volume, or one for each partition that has a type.
VolumeRegisterDevice(d, name) ==
  \E mbr \in MbrRead(d) :
    LET entry(i) == mbr.partitions[i]
        lists[i \in 0 .. 4] ==
          IF i = 0 THEN {volumes}
          ELSE IF entry(i).type = 0 THEN lists[i - 1]
          ELSE UNION {Registered(list, PartitionVolume(d, name, entry(i), i)) : list \in lists[i - 1]}
    IN volumes' \in IF MbrProbe(mbr) THEN lists[4] ELSE Registered(volumes, DeviceVolume(d, name))

\* volume_find_by_id, volume_find_by_name: the first that fits, 0 if none does.
VolumeFindById(id) == SelectInSeq(volumes, LAMBDA v : v.id = id)
VolumeFindByName(name) == SelectInSeq(volumes, LAMBDA v : v.name = name)

\* syscall_lsvol
LsVol(index) == IF index < Len(volumes) THEN index + 1 ELSE 0

\* volume_read: a range is cut where the volume ends.
VolumeRead(i, offset, size) ==
  LET v == volumes[i]
  IN IF offset > v.size THEN <<>>
     ELSE DriverRead(v.drive, Wrap(v.offset + offset),
                     IF Wrap(offset + size) > v.size THEN v.size - offset ELSE size)

\* Mutant: the cut is forgotten.
VolumeWriteUncut(i, offset, cells) ==
  IF offset > volumes[i].size THEN disk
  ELSE DriverWrite(volumes[i].drive, Wrap(volumes[i].offset + offset), cells)

\* volume_write
VolumeWrite(i, offset, cells) ==
  LET v == volumes[i]
  IN IF offset > v.size THEN disk
     ELSE DriverWrite(v.drive, Wrap(v.offset + offset),
                      IF Wrap(offset + Len(cells)) > v.size THEN Slice(cells, 0, v.size - offset)
                      ELSE cells)

-----------------------------------------------------------------------------
(* Booting.                                                                *)

NoWrite == [volume |-> 0, offset |-> 0, cells |-> <<>>]

StorageInit ==
  /\ machine \in Machines
  /\ device_tree = Computer
  /\ stage = "initrd" /\ cursor = 0
  /\ ata_devices = [d \in Drive |-> [present |-> FALSE, lba_supported |-> FALSE, size |-> 0]]
  /\ disk = machine.disk
  /\ volumes = <<>>
  /\ written = NoWrite

StorageDevice(d, name) == Device(name, "storage", "platform", d)
DriveName(d) == <<"ATA Drive", d>>

\* initrd_init: the module must carry the ramdisk's header.
InitrdInit ==
  /\ stage = "initrd"
  /\ IF machine.initrd
     THEN /\ device_tree' = DeviceRegister(device_tree, NULL, StorageDevice(Ramdisk, <<"Initial Ramdisk">>))
          /\ VolumeRegisterDevice(Ramdisk, <<"Initial Ramdisk">>)
     ELSE UNCHANGED <<device_tree, volumes>>
  /\ stage' = "vga"
  /\ UNCHANGED <<machine, cursor, ata_devices, disk, written>>

\* ata_init, in two steps for each of the four drives: the probe sets what the
\* driver knows of the drive,
AtaInitProbe ==
  /\ stage = "ata" /\ cursor \in Drive
  /\ ata_devices' = [ata_devices EXCEPT ![cursor] = AtaProbe(cursor)]
  /\ stage' = "ata found"
  /\ UNCHANGED <<machine, device_tree, cursor, disk, volumes, written>>

\* and a drive that is there is registered.
AtaInitRegister ==
  /\ stage = "ata found"
  /\ IF ata_devices[cursor].present
     THEN /\ device_tree' = DeviceRegister(device_tree, NULL, StorageDevice(cursor, DriveName(cursor)))
          /\ VolumeRegisterDevice(cursor, DriveName(cursor))
     ELSE UNCHANGED <<device_tree, volumes>>
  /\ cursor' = cursor + 1
  /\ stage' = IF cursor' \in Drive THEN "ata" ELSE "sata"
  /\ UNCHANGED <<machine, ata_devices, disk, written>>

\* initfs_probe
InitfsProbe(i) == "initfs" \in DOMAIN VolumeRead(i, 0, 1)[1]

\* init_console: the kernel panics without the ramdisk, a screen or a keyboard.
InitConsole ==
  /\ stage = "console"
  /\ LET ramdisk == VolumeFindByName(<<"Initial Ramdisk">>)
     IN stage' = IF /\ ramdisk # 0
                    /\ InitfsProbe(ramdisk)
                    /\ FindByType("video") # NULL
                    /\ FindByType("keyboard") # NULL
                 THEN "up" ELSE "panic"
  /\ UNCHANGED <<machine, device_tree, cursor, ata_devices, disk, volumes, written>>

\* Where a range of a volume begins on its drive, and how much of it is in the volume.
Target(v, offset) == Wrap(v.offset + offset)
Fitting(v, offset, size) == IF size > v.size - offset THEN v.size - offset ELSE size

\* The volume interface: one write of any range.  One for which the ATA driver runs
\* past its buffers is the end of the kernel; what it leaves behind is not modelled.
\* (Both file systems are read-only, so that nothing in the kernel writes today.)
Write(i, offset, cells) ==
  /\ stage = "up"
  /\ LET v == volumes[i]
         n == Fitting(v, offset, Len(cells))
     IN IF v.drive # Ramdisk /\ ~AtaRefuses(v.drive, Target(v, offset), n) /\ Overruns(Target(v, offset), n)
        THEN stage' = "overrun" /\ UNCHANGED <<disk, written>>
        ELSE /\ disk' = VolumeWrite(i, offset, cells)
             /\ written' = [volume |-> i, offset |-> offset, cells |-> cells]
             /\ UNCHANGED stage
  /\ UNCHANGED <<machine, device_tree, cursor, ata_devices, volumes>>

BootNext ==
  \/ InitrdInit
  \/ (VgaInit \/ Ps2KeyboardInit \/ PciInitSlot \/ PciInitDone \/ SataInit) /\ UNCHANGED storageVars
  \/ AtaInitProbe \/ AtaInitRegister
  \/ InitConsole

-----------------------------------------------------------------------------
(* Properties.                                                             *)

\* What a volume holds, by the partition table rather than by the driver.
Contents(i) == Slice(disk[volumes[i].drive], volumes[i].offset, volumes[i].size)

\* Safety: a user mounts a volume by the id that lsvol shows.  Every volume that
\* was registered is listed and its id leads to it and to no other
\* (generate_short_id with volume_id_exists, volume_find_by_id).
VolumesAddressable ==
  \A i \in DOMAIN volumes :
    /\ LsVol(i - 1) = i
    /\ VolumeFindById(volumes[i].id) = i

\* A volume that lies where the driver can address it: on a master that knows LBA and
\* holds less than 4 GB, and not past its end.
Addressable(v) ==
  /\ v.drive # Ramdisk /\ IsMaster(v.drive) /\ machine.drives[v.drive].lba
  /\ Len(machine.disk[v.drive]) < Word
  /\ v.offset + v.size <= Len(machine.disk[v.drive])

\* Action: a write changes nothing outside the range it was asked for, cut where the
\* volume ends: no other volume and no other drive, however the range lies across
\* sectors (ata_write reads and rewrites whole ones).  Within the range it puts its
\* cells in their places if the driver can address the volume and the range begins
\* with a sector or stays in one; other ranges it leaves with gaps.  A slave's
\* sectors are sought on the master of its channel, at the same place.
WritesStayInVolume ==
  [][written' # written =>
       LET v == volumes[written'.volume]
           at == Target(v, written'.offset)
           n == Fitting(v, written'.offset, Len(written'.cells))
       IN \A d \in DOMAIN disk : \A c \in DOMAIN disk[d] :
            IF d # Ramdisk /\ d = Selected(v.drive) /\ c > at /\ c <= at + n
            THEN Addressable(v) /\ SectorSafe(at, n) => disk'[d][c] = written'.cells[c - at]
            ELSE disk'[d][c] = disk[d][c]]_<<disk, written>>
=============================================================================
